------------------------------ MODULE EnvFile ------------------------------
(***************************************************************************)
(* How credentials.py rewrites .env: line by line, one VPN at a time, and  *)
(* what python-dotenv reads from the result when the app starts.           *)
(*                                                                         *)
(* A value is a sequence of parts.  Between two parts stands a character   *)
(* that ends a line for str.splitlines but neither for _quote, which       *)
(* escapes \n and \r, nor for python-dotenv: a vertical tab, a form feed,  *)
(* U+2028 and so on.  Whatever else _quote escapes is read back as it was. *)
(***************************************************************************)
EXTENDS SequencesExt

CONSTANTS
    Vpn,        \* ids
    NamesOf,    \* NamesOf[v]: the sequence of the variables of v (env_var_names)
    Name,       \* all of those
    Part,       \* pieces of a value
    MaxParts,   \* bound: parts of a value
    MaxLines,   \* bound: lines of the file before the first rewrite
    None        \* no variable, no value

ASSUME NamesAssumption == NamesOf \in [Vpn -> Seq(Name)]
ASSUME BoundsAssumption == MaxParts \in Nat \ {0} /\ MaxLines \in Nat

Empty == <<>>
Value == BoundedSeq(Part, MaxParts)
Line  == [name : Name \union {None}, value : Value]     \* name None: any other line

ASSUME NoneAssumption == None \notin Name \union Value

VARIABLES
    text,       \* the lines of .env
    environ     \* environ[n]: n in os.environ

vars == <<text, environ>>

\* The elements of s at the indices in chosen, in their order.
Select(s, chosen) ==
    LET upTo[i \in 0 .. Len(s)] ==
            IF i = 0 THEN <<>>
            ELSE IF i \in chosen THEN Append(upTo[i - 1], s[i]) ELSE upTo[i - 1]
    IN  upTo[Len(s)]

\* load_dotenv: the last assignment of a name counts.
Loaded(t) == [n \in Name |->
    LET is == {i \in DOMAIN t : t[i].name = n}
    IN  IF is = {} THEN None ELSE t[Max(is)].value]

\* text.splitlines(): a value with more than one part falls apart.
Split(l) == [i \in 1 .. Max({1, Len(l.value)}) |->
    [name  |-> IF i = 1 THEN l.name ELSE None,
     value |-> IF l.value = Empty THEN Empty ELSE <<l.value[i]>>]]

Splitlines(t) == FlattenSeq([i \in DOMAIN t |-> Split(t[i])])

-----------------------------------------------------------------------------
\* Slip: a name that is to be deleted is appended too.
UnwrittenOrDeleted(lines, values, order) ==
    Select(order, {i \in DOMAIN order : /\ order[i] \in DOMAIN values
                                        /\ \A l \in Range(lines) : l.name # order[i]})

\* The names that no line assigns, in the order they would be appended.
Unwritten(lines, values, order) ==
    Select(order, {i \in DOMAIN order : /\ order[i] \in DOMAIN values /\ values[order[i]] # None
                                        /\ \A l \in Range(lines) : l.name # order[i]})

Assignments(names, values) ==
    [i \in DOMAIN names |-> [name |-> names[i], value |-> values[names[i]]]]

\* A line with its new value, if it has one.
Updated(l, values) == IF l.name \in DOMAIN values THEN [l EXCEPT !.value = values[l.name]] ELSE l

\* Slip: a later assignment of the same name stays as it is.
ApplyToFirst(t, values, order) ==
    LET lines == Splitlines(t)
        First(i) == \A j \in 1 .. i - 1 : lines[j].name # lines[i].name
        kept == {i \in DOMAIN lines :
                    lines[i].name \in DOMAIN values => values[lines[i].name] # None}
    IN  Select([i \in DOMAIN lines |-> IF First(i) THEN Updated(lines[i], values) ELSE lines[i]],
               kept)
        \o Assignments(Unwritten(lines, values, order), values)

\* Slip: the file is written from its assignments, and the rest is dropped.
ApplyToAssignments(t, values, order) ==
    LET lines == Splitlines(t)
    IN  Select(lines, {i \in DOMAIN lines : lines[i].name \notin DOMAIN values \union {None}})
        \o Assignments(Unwritten(<<>>, values, order), values)

\* _apply: the first assignment of a name is replaced, the others go.
Apply(t, values, order) ==
    LET lines == Splitlines(t)
        First(i) == \A j \in 1 .. i - 1 : lines[j].name # lines[i].name
        kept == {i \in DOMAIN lines : lines[i].name \in DOMAIN values
                                          => values[lines[i].name] # None /\ First(i)}
    IN  Select([i \in DOMAIN lines |-> Updated(lines[i], values)], kept)
        \o Assignments(Unwritten(lines, values, order), values)

\* _rewrite, then the same values into the environment.
Rewrite(v, values) ==
    /\ text' = Apply(text, values, NamesOf[v])
    /\ environ' = [n \in Name |-> IF n \in DOMAIN values THEN values[n] ELSE environ[n]]

\* set_credentials, as edit_vpn calls it: an empty value is one left out, and
\* with nothing to store nothing is rewritten.
SetCredentials(v) ==
    \E ns \in SUBSET Range(NamesOf[v]) : \E values \in [ns -> Value \ {Empty}] :
        IF ns = {} THEN UNCHANGED vars ELSE Rewrite(v, values)

Present(n) == \E l \in Range(text) : l.name = n

\* Slip: a line that is there and not given is emptied.
ScaffoldAnew(v) == \E values \in [Range(NamesOf[v]) -> Value] : Rewrite(v, values)

\* scaffold_credentials: given, or empty unless the line is there.
ScaffoldCredentials(v) ==
    \E given \in SUBSET Range(NamesOf[v]) : \E f \in [given -> Value \ {Empty}] :
        LET ns == {n \in Range(NamesOf[v]) : n \in given \/ ~Present(n)}
        IN  IF ns = {} THEN UNCHANGED vars
            ELSE Rewrite(v, [n \in ns |-> IF n \in given THEN f[n] ELSE Empty])

RemoveCredentials(v) == Rewrite(v, [n \in Range(NamesOf[v]) |-> None])

Init == text \in BoundedSeq(Line, MaxLines) /\ environ = Loaded(text)

Operation(v) == SetCredentials(v) \/ ScaffoldCredentials(v) \/ RemoveCredentials(v)

Next == \E v \in Vpn : Operation(v)

Spec == Init /\ [][Next]_vars

-----------------------------------------------------------------------------
(* Properties.                                                             *)

TypeOK == text \in Seq(Line) /\ environ \in [Name -> Value \union {None}]

\* A restart reads back what the running app has, however often .env was
\* rewritten and whatever it held before (credentials.py:24-27).
RestartReadsTheSame == Loaded(text) = environ

\* The lines of a file that do not assign a variable of v.
OtherLines(t, v) == Select(t, {i \in DOMAIN t : t[i].name \notin Range(NamesOf[v])})

\* An operation on a VPN changes its lines; "every other line, comment and the order
\* are kept" (credentials.py:3-4).
OtherLinesKept ==
    [][\A v \in Vpn : OtherLines(text', v) = OtherLines(text, v) \/ ~Operation(v)]_vars

\* The line-wise rewriting implements a map, VPN by VPN.
Map == INSTANCE CredentialMap
         WITH creds <- Loaded(text), NamesOf <- [v \in Vpn |-> Range(NamesOf[v])]

ImplementsMap == Map!Spec
=============================================================================
