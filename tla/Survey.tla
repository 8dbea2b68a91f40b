-------------------------------- MODULE Survey --------------------------------
(***************************************************************************)
(* What a scan of the markets promises, whatever happens to its reads: one *)
(* record for every market it set out to inspect, in their order, naming   *)
(* only price feeds the market really has; and a file only when all of     *)
(* them are there.                                                         *)
(***************************************************************************)
EXTENDS Naturals, Sequences

CONSTANTS Markets,
          Feeds        \* the PT price feeds below each market's oracle

VARIABLES status,      \* "running", "published" or "abandoned"
          agenda,      \* the markets to inspect
          recorded     \* one record for each inspected so far

surveyVars == <<status, agenda, recorded>>

Distinct(seq) == \A i, j \in DOMAIN seq : seq[i] = seq[j] => i = j

Init == status = "running" /\ agenda = << >> /\ recorded = << >>

Plan ==
  /\ status = "running" /\ agenda = << >>
  /\ agenda' \in {s \in Seq(Markets) : Distinct(s)}
  /\ UNCHANGED <<status, recorded>>

Record ==
  /\ status = "running"
  /\ Len(recorded) < Len(agenda)
  /\ \E feeds \in SUBSET Feeds[agenda[Len(recorded) + 1]] :
       recorded' = Append(recorded, [market |-> agenda[Len(recorded) + 1], feeds |-> feeds])
  /\ UNCHANGED <<status, agenda>>

Publish ==
  /\ status = "running" /\ Len(recorded) = Len(agenda)
  /\ status' = "published"
  /\ UNCHANGED <<agenda, recorded>>

Abandon ==
  /\ status = "running"
  /\ status' = "abandoned"
  /\ UNCHANGED <<agenda, recorded>>

Next == Plan \/ Record \/ Publish \/ Abandon

Spec == Init /\ [][Next]_surveyVars
=============================================================================
