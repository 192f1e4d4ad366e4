-------------------------- MODULE MCHapPermission --------------------------
\* Releases of one application, and packages made from them with parts of
\* another one.
EXTENDS HapPermission

MCSigners  == {"agc", "dev", "lookalike"}
MCAgcNamed == {"agc", "lookalike"}

Zip(module, share, rest) == [module |-> module, share |-> share, rest |-> rest]

Contents1(zip, profile, block) ==
    [zip |-> zip, profile |-> profile, block |-> block]

Sealed(contents, signer) ==
    [contents |-> contents, sealed |-> contents, signer |-> signer]

Plain(zip, profile) == Contents1(zip, profile, None)

\* With a permission block, signed by key.
Blocked(zip, profile, key) ==
    Contents1(zip, profile, [raw |-> ReadPermissionRaw(Plain(zip, profile)),
                             key |-> key])

Zip1 == Zip("m1", None, "r1")
Zip2 == Zip("m2", "s1", "r1")

Plain1  == Sealed(Plain(Zip2, "p1"), "agc")
Renewed == Sealed(Plain(Zip2, "p2"), "agc")
Block1  == Sealed(Blocked(Zip1, "p1", "agc"), "agc")
Block2  == Sealed(Blocked(Zip2, "p1", "dev"), "dev")
Alike   == Sealed(Blocked(Zip2, "p1", "lookalike"), "lookalike")
Unsigned == Sealed(Plain(Zip2, "p1"), None)

\* Changed after they were signed: the JSON, another entry, the block.
OtherJson  == [Plain1 EXCEPT !.contents.zip = Zip1]
OtherRest  == [Plain1 EXCEPT !.contents.zip.rest = "r2"]
OtherBlock == [Block1 EXCEPT !.contents.block = Block2.contents.block]
NoKey      == [Block1 EXCEPT !.contents.block.key = None]

MCFiles == {Plain1, Renewed, Block1, Block2, Alike, Unsigned, OtherJson,
            OtherRest, OtherBlock, NoKey}
MCSystemFiles == {Block1}
MCTrusts == {{"agc", "dev"}, {"dev", "lookalike"}}
=============================================================================
