---------------------------- MODULE MCJcvmCrypto ----------------------------
(* Applets that construct a few native security objects each.              *)
EXTENDS JcvmCrypto

Aes == <<"key", 15, 128>>
Tx == {<<"tx">>, <<"pin">>}
Clear == {<<"clear">>}
\* Every cipher mode and padding, and every MAC, without transactions.
Streams == {{Aes, <<"cipher", k, 0>>} : k \in {13, 14, 23, 24, 25, 27, 240}}
  \cup {{Aes, <<"sign", k, 0>>} : k \in {18, 49}}
  \cup {{<<"key", 3, 128>>, <<"sign", k, 0>>} : k \in {2, 20}}
  \cup {{<<"key", 1, 64>>, <<"cipher", 7, 0>>}}
  \cup {{<<"key", 4, 1024>>, <<"cipher", 12, 0>>}}
\* Transactions, PIN checkpoints and cleared keys around them.
Others ==
  {{Aes, <<"cipher", 24, 0>>} \cup Tx,
   {<<"key", 13, 128>>, <<"sign", 49, 0>>} \cup Tx \cup Clear,
   {<<"key", 3, 128>>, <<"sign", 2, 0>>} \cup Tx \cup Clear,
   {<<"pair", 5, 256>>, <<"sign", 33, 0>>} \cup Tx,
   {<<"pair", 2, 1024>>, <<"sign", 40, 0>>},
   {<<"pair", 2, 1024>>} \cup Tx \cup Clear,
   {<<"pair", 5, 256>>, <<"key", 11, 256>>, <<"key", 12, 256>>} \cup Tx \cup Clear,
   {<<"key", 11, 384>>, <<"key", 31, 384>>, <<"ec">>},
   {<<"key", 12, 384>>, <<"agree", 3, 0>>, <<"ec">>} \cup Clear,
   {<<"random", 1, 0>>, <<"random", 2, 0>>} \cup Tx,
   {<<"digest", 4, 0>>} \cup Tx,
   {<<"oneshot", 4, 0>>} \cup Tx,
   {<<"sum", 1, 0>>} \cup Tx}
Applets == Streams \cup Others
=============================================================================
