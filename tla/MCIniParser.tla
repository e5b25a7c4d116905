----------------------------- MODULE MCIniParser -----------------------------
(***************************************************************************)
(* An instance of the configuration for TLC: two sections with a key each, *)
(* a key before any section, and hashes that collide.                      *)
(***************************************************************************)
EXTENDS IniParser

MCKeys == {<<"A">>, <<"B">>, <<"A", "k">>, <<"B", "k">>, <<"", "k">>}
MCHash == [k \in MCKeys |-> IF k = <<"", "k">> THEN 2 ELSE Len(k)]

Section(s) == [kind |-> "section", name |-> s, value |-> <<>>, text |-> <<"y">>, more |-> FALSE]
Value(w, more) == [kind |-> "value", name |-> "k", value |-> w, text |-> <<"y">>, more |-> more]
Other(kind, more) == [kind |-> kind, name |-> NULL, value |-> <<>>, text |-> <<"y">>, more |-> more]

MCLines == {Section("A"), Section("B"), Section(NULL),
            Value(<<"x">>, FALSE), Value(<<"x">>, TRUE), Value(<<"'", "x", ";", "'">>, FALSE),
            Other("skip", TRUE), Other("error", FALSE), Other("long", FALSE)}

MCWords == {"x", "y", ";", "'", "backslash", "k =", "(null)"}
MCUserKeys == {<<"A", "k">>}
MCUserValues == {<<"y">>, <<"y", "backslash">>, NULL}
=============================================================================
