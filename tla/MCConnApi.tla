------------------------------ MODULE MCConnApi ------------------------------
(* Two identifiers, one name, one address: the bodies differ in the type,    *)
(* the configuration and the password, which is what the properties tell     *)
(* apart.                                                                    *)
EXTENDS ConnApi, TLC

CONSTANTS r1, r2, i1, i2, p1, p2, a1, n1

Config(p) == [addr |-> a1, password |-> p]
Only(k, p) == [j \in Types |-> IF j = k THEN Config(p) ELSE NoConfig]

None == [k \in Types |-> NoConfig]

Body(type, cfg) == [name |-> n1, type |-> type, cfg |-> cfg]

MCCreateBodies == {Body("mysql", Only("mysql", p1))}

\* The edit form of the other type with the password left blank; then what no
\* form sends: a type alone, and a configuration without its type.
MCUpdateBodies ==
  {Body("redis", Only("redis", Blank))}
    \cup {Body("other", None), Body(Absent, Only("mysql", p1))}

\* The edit form with the password left blank, and with a new one.
MCPasswordBodies ==
  {Body("mysql", Only("mysql", p)) : p \in {Blank, p2}}

MCSymmetry == Permutations({r1, r2}) \cup Permutations({i1, i2})
=============================================================================
