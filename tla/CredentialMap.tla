--------------------------- MODULE CredentialMap ---------------------------
(***************************************************************************)
(* What .env promises (credentials.py): a map from variables to values, in *)
(* which an operation on one VPN changes the variables of that VPN only.   *)
(***************************************************************************)
CONSTANTS Vpn, NamesOf, Name, Value, Empty, None

VARIABLE creds      \* creds[n]: the value a start of the app reads for n

Init == creds \in [Name -> Value \union {None}]

Merge(f) == [n \in Name |-> IF n \in DOMAIN f THEN f[n] ELSE creds[n]]

\* set_credentials: what is given is stored, what is left out is kept.
Store(v) == \E ns \in SUBSET NamesOf[v] : \E f \in [ns -> Value \ {Empty}] : creds' = Merge(f)

\* scaffold_credentials: what is not given is there afterwards, if only empty.
Provide(v) ==
    \E ns \in SUBSET NamesOf[v] : \E f \in [ns -> Value \ {Empty}] :
        creds' = Merge([n \in NamesOf[v] |-> IF n \in ns THEN f[n]
                                             ELSE IF creds[n] = None THEN Empty ELSE creds[n]])

\* remove_credentials.
Forget(v) == creds' = Merge([n \in NamesOf[v] |-> None])

Next == \E v \in Vpn : Store(v) \/ Provide(v) \/ Forget(v)

Spec == Init /\ [][Next]_creds
=============================================================================
