-------------------------- MODULE MCContextBuilder --------------------------
(***************************************************************************)
(* An instance of ContextBuilder for TLC.  With a budget of 100 tokens, 90 *)
(* are spendable and the shares are 36, 22, 18 and 13 tokens; the profiles *)
(* lie on and just beyond these, and an overlap of 3 in 5 words is exactly *)
(* the threshold.                                                          *)
(***************************************************************************)
EXTENDS ContextBuilder

P(type, tokens, words) == [type |-> type, tokens |-> tokens, words |-> words]

MCProfiles == {
    P("DECISION", 36, {1, 2, 3}),
    P("DECISION", 37, {6}),
    P("DECISION", 50, {7}),
    P("CONSTRAINT", 22, {1, 2, 3, 4, 5}),
    P("CONSTRAINT", 23, {6, 7}),
    P("CONSTRAINT", 45, {8, 9}),
    P("FACT", 18, {1, 2}),
    P("FACT", 19, {6, 7, 8}),
    P("TASK", 13, {}),
    P("TASK", 91, {8})}
=============================================================================
