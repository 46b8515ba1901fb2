---------------------------- MODULE ResearchPromise ----------------------------
(***************************************************************************)
(* What run_pipeline promises to whoever submits a job, whatever the       *)
(* agents do inside: sources are only ever added; a bounded number of      *)
(* times the job goes round again, keeping claims it already vouches for;  *)
(* in the end it delivers claims, one per text, each resting on a source   *)
(* it has seen or on none, or it fails and delivers nothing.               *)
(***************************************************************************)
EXTENDS Naturals

CONSTANTS Texts, Urls, Unsourced, MaxRounds

VARIABLES phase, round, sources, kept, answer

promise == <<phase, round, sources, kept, answer>>

Claims == [text : Texts, url : Urls \cup {Unsourced}]

Vouched(claims) ==
  /\ \A c, d \in claims : c.text = d.text => c = d
  /\ \A c \in claims : c.url \in sources \cup {Unsourced}

Init ==
  /\ phase = "researching" /\ round = 0
  /\ sources = {} /\ kept = {} /\ answer = {}

Search ==
  /\ phase = "researching"
  /\ \E found \in SUBSET Urls : sources' = sources \cup found
  /\ UNCHANGED <<phase, round, kept, answer>>

GoRoundAgain ==
  /\ phase = "researching"
  /\ round + 1 < MaxRounds
  /\ round' = round + 1
  /\ \E more \in SUBSET Claims :
       /\ Vouched(kept \cup more)
       /\ kept' = kept \cup more
  /\ UNCHANGED <<phase, sources, answer>>

Deliver ==
  /\ phase = "researching"
  /\ phase' = "delivered"
  /\ \E claims \in SUBSET Claims : Vouched(claims) /\ answer' = claims
  /\ UNCHANGED <<round, sources, kept>>

Fail ==
  /\ phase = "researching"
  /\ phase' = "failed"
  /\ UNCHANGED <<round, sources, kept, answer>>

Next == Search \/ GoRoundAgain \/ Deliver \/ Fail

Spec == Init /\ [][Next]_promise

(* The job is not left researching.                                        *)
Finishes == <>(phase # "researching")
=============================================================================
