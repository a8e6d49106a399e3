----------------------------- MODULE PollRound -----------------------------
(***************************************************************************)
(* What cron_queryMeters promises to the main loop, whatever threads it    *)
(* uses: a round takes the set of due meters, polls each of them exactly   *)
(* once, and reports only when every one of them has been polled.  The     *)
(* number reported is that of the due meters that answered plus that of    *)
(* all formula-only meters: these are computed and counted in every round, *)
(* and those that are due are among the answers as well.  The main loop    *)
(* asks only whether the number is 0.  WorkerPool is shown to implement    *)
(* this specification.                                                     *)
(***************************************************************************)
EXTENDS Naturals, FiniteSets

CONSTANTS Meters,   (* the meters of the configuration                     *)
          Computed  (* those that are formula-only                         *)

VARIABLES phase,    (* "idle", "polling" or "report"                       *)
          due,      (* the meters of the current round                     *)
          outcome,  (* what polling each meter gave: "none", "ok", "fail"  *)
          total     (* the number the round reports                        *)

pollVars == <<phase, due, outcome, total>>

Answered == {m \in due : outcome[m] = "ok"}

Init ==
  /\ phase = "idle"
  /\ due = {}
  /\ outcome = [m \in Meters |-> "none"]
  /\ total = 0

(* A round begins; with nothing due it is over at once.                    *)
Start(D) ==
  /\ phase = "idle"
  /\ due' = D
  /\ outcome' = [m \in Meters |-> "none"]
  /\ phase' = IF D = {} THEN "idle" ELSE "polling"
  /\ UNCHANGED total

(* Some due meters, each not polled so far, are polled; those in A answer. *)
Poll(S, A) ==
  /\ phase = "polling"
  /\ S \subseteq {m \in due : outcome[m] = "none"}
  /\ outcome' = [m \in Meters |-> IF m \notin S THEN outcome[m]
                                  ELSE IF m \in A THEN "ok" ELSE "fail"]
  /\ UNCHANGED <<phase, due, total>>

(* The report is made when no due meter is left to be polled.              *)
Report ==
  /\ phase = "polling"
  /\ \A m \in due : outcome[m] # "none"
  /\ phase' = "report"
  /\ total' = Cardinality(Answered) + Cardinality(Computed)
  /\ UNCHANGED <<due, outcome>>

Release ==
  /\ phase = "report"
  /\ phase' = "idle"
  /\ total' = 0
  /\ UNCHANGED <<due, outcome>>

Next ==
  \/ \E D \in SUBSET Meters : Start(D)
  \/ \E S \in SUBSET Meters : \E A \in SUBSET S : Poll(S, A)
  \/ Report
  \/ Release

Spec == Init /\ [][Next]_pollVars
=============================================================================
