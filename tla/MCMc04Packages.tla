--------------------------- MODULE MCMc04Packages ---------------------------
(* Instances of Mc04Packages for TLC: the packages that are sent. *)
EXTENDS Mc04Packages
CONSTANTS d1

\* One assembly version per package version; the digest names the content.
Pkg(dom, asm, ver, signer, inc, deps, export, gpio, entry) ==
  [dom |-> dom, asm |-> asm, ver |-> ver, asmver |-> ver, signer |-> signer,
   digest |-> <<dom, asm, ver, signer>>, inc |-> inc, deps |-> deps,
   export |-> export, gpio |-> gpio, entry |-> entry]
On(asm, scope) ==
  [asm |-> asm, admits |-> 1 .. 2, ver |-> 0, signer |-> NoPkg, digest |-> NoPkg,
   scope |-> scope]
Public == {"owner", "a"}

Core == Pkg(Isd, "core", 1, "owner", 1, {}, Public, FALSE, FALSE)
Lib(ver) == Pkg(d1, "lib", ver, "a", 2, {On("core", 1)}, {"a"}, FALSE, FALSE)
\* A library for its own signer, an update its consumer's pins exclude, its
\* reissue for a new domain, which exports nothing, and a consumer of each.
Linked ==
  {Core, Lib(1), Lib(2),
   Pkg(d1, "lib", 1, "b", 3, {}, {}, FALSE, FALSE),
   Pkg(d1, "app", 1, "a", 2,
       {[On("lib", 0) EXCEPT !.ver = 1, !.signer = "a", !.digest = Lib(1).digest]},
       {}, TRUE, TRUE),
   Pkg(d1, "app", 1, "b", 3, {On("lib", 0)}, {}, FALSE, TRUE)}
\* The same library in the issuer domain and in the consumer's own.
TwoProviders ==
  {Core,
   Pkg(Isd, "lib", 1, "owner", 1, {}, Public, FALSE, FALSE),
   Pkg(d1, "lib", 1, "a", 2, {}, {"a"}, FALSE, FALSE),
   Pkg(d1, "app", 1, "a", 2, {On("lib", 2)}, {}, FALSE, TRUE)}
=============================================================================
