---------------------------- MODULE ParseOutcome ----------------------------
(***************************************************************************)
(* What parse() of fe/parse/parse.cpp promises its caller, without cursor, *)
(* history or productions: it may report attribute arguments, then look up *)
(* the first name of lexed_ids and perhaps the second, and returns with    *)
(* one verdict on the first token, or it never returns.  Parser implements *)
(* this.                                                                   *)
(***************************************************************************)
EXTENDS Naturals, Sequences

CONSTANTS TokenStreams, Keywords

VARIABLES
  toks,     \* the token_vector
  state,
  diags,    \* what the reporter was given
  lookups   \* the indices of the names looked up

vars == <<toks, state, diags, lookups>>

Init == /\ toks \in TokenStreams
        /\ state = "running" /\ diags = <<>> /\ lookups = <<>>

Complain == /\ state = "running" /\ lookups = <<>>
            /\ diags' = Append(diags, "unbalanced_token_sequence")
            /\ UNCHANGED <<toks, state, lookups>>

LookUp == /\ state = "running" /\ Len(lookups) < 2
          /\ lookups' = Append(lookups, Len(lookups))
          /\ UNCHANGED <<toks, state, diags>>

Verdict == IF toks[1] \in Keywords THEN "unimplemented_keyword"
                                   ELSE "unrecognized_token"
Reject == /\ state = "running" /\ toks # <<>>
          /\ state' = "rejected"
          /\ diags' = Append(diags, Verdict)
          /\ UNCHANGED <<toks, lookups>>

NothingToParse == /\ state = "running" /\ toks = <<>>
                  /\ diags = <<>> /\ lookups = <<>>
                  /\ state' = "empty"
                  /\ UNCHANGED <<toks, diags, lookups>>

Die == /\ state = "running"
       /\ state' = "dead"
       /\ UNCHANGED <<toks, diags, lookups>>

Next == Complain \/ LookUp \/ Reject \/ NothingToParse \/ Die

Spec == Init /\ [][Next]_vars
=============================================================================
