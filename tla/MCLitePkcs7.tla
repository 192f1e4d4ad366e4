---------------------------- MODULE MCLitePkcs7 ----------------------------
(***************************************************************************)
(* Up to three certificates in any order out of a pool with two signers, a *)
(* certificate with the serial number of another, an authority with a      *)
(* namesake that holds another key, names in two spellings and of a kind   *)
(* that equals nothing, and the copy of a root.                            *)
(***************************************************************************)
EXTENDS LitePkcs7

Name(fold, text) == [fold |-> fold, text |-> text, legal |-> TRUE]
Illegal(name)    == [name EXCEPT !.legal = FALSE]

Root  == Name("root", "Root")
Debug == Name("debug", "Debug")
Ohos  == Name("ohos", "Ohos")
CA    == Name("ca", "CA")
CaLow == Name("ca", "Ca")
Leaf  == Name("leaf", "Leaf")
Two   == Name("two", "Two")
Sub   == Name("sub", "Sub")
Far   == Name("far", "Far")

MCRoots ==
    [r \in {"debug", "release", "openharmony"} |->
        CASE r = "debug"       -> [subject |-> Debug, key |-> "kd"]
          [] r = "release"     -> [subject |-> Root, key |-> "kr"]
          [] r = "openharmony" -> [subject |-> Ohos, key |-> "ko"]]

Crt(subject, issuer, serial, key, by) ==
    [subject |-> subject, issuer |-> issuer, serial |-> serial, key |-> key,
     by |-> by]

Pool ==
    {Crt(Leaf, CA, 1, "kl", "kc"), Crt(Two, CaLow, 2, "k2", "kc"),
     Crt(Leaf, CA, 1, "kx", "kx"), Crt(CA, Root, 3, "kc", "kr"),
     Crt(CaLow, Debug, 4, "kc", "kd"), Crt(CA, Root, 5, "kx", "kx"),
     Crt(Illegal(CA), Root, 6, "kc", "kr"), Crt(Root, Root, 7, "kr", "kr"),
     Crt(Two, Ohos, 8, "k2", "ko"), Crt(Far, Sub, 9, "kf", "ks"),
     Crt(Sub, CA, 10, "ks", "kc")}

MCListed == [app |-> {<<"Leaf", "CA">>, <<"Far", "Sub">>}, profile |-> {<<"Far", "Sub">>}]
MCListedTest == [app |-> {}, profile |-> {<<"Leaf", "CA">>}]

Chains(n) == {s \in [1..n -> Pool] : \A i, j \in 1..n : s[i] = s[j] => i = j}

Signer(issuer, serial, by) ==
    [issuer |-> issuer, serial |-> serial, digestAlg |-> "sha256",
     encAlg |-> "ecdsa", attributes |-> <<"content">>, by |-> by]

One   == Signer(CaLow, 1, "kl")
Other == Signer(CA, 2, "k2")
Self  == Signer(Ohos, 8, "k2")
Deep  == Signer(Sub, 9, "kf")

Signers ==
    {<<One>>, <<Other>>, <<Self>>, <<One, Other>>, <<One, Self>>,
     <<Deep>>, <<[One EXCEPT !.by = "kx"]>>, <<[One EXCEPT !.attributes = None]>>,
     <<[One EXCEPT !.attributes = <<"other", "content">>]>>,
     <<[One EXCEPT !.digestAlg = "sha1"]>>,
     <<One, [Self EXCEPT !.by = "kl"]>>, <<Self, [One EXCEPT !.by = "kx"]>>}

Message(certs, signers, crls, bad) ==
    [certs |-> certs, signers |-> signers, crls |-> crls, bad |-> bad]

Crls ==
    {<<>>, <<[issuer |-> CA, by |-> "kc", serials |-> {1}]>>,
     <<[issuer |-> Root, by |-> "kr", serials |-> {}],
       [issuer |-> CaLow, by |-> "kx", serials |-> {9}]>>}

MCMessages ==
    {Message(c, s, <<>>, None) : c \in UNION {Chains(n) : n \in 0..3}, s \in Signers}
    \cup {Message(c, <<One>>, l, None) : c \in Chains(2), l \in Crls}
    \cup {Message(c, <<One>>, <<>>, b) :
             c \in Chains(2), b \in {"head", "content", "certs", "crl", "signers"}}
=============================================================================
