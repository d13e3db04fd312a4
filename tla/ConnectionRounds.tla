--------------------------- MODULE ConnectionRounds ---------------------------
(***************************************************************************)
(* What the main window promises about its connections, whatever threads   *)
(* do the work: they come in rounds.  A round has one attempt for each     *)
(* server of the wanted list, in its order; an attempt succeeds or fails   *)
(* while the window goes on; a round is dropped before the next begins,    *)
(* and an attempt only after it has ended.                                 *)
(***************************************************************************)
EXTENDS Naturals, Sequences

CONSTANTS
  Server,   (* The servers a user may list.                                *)
  Lists     (* The lists that may be wanted: sequences of servers.         *)

VARIABLES
  phase,    (* "launching", "serving", "dropping", "over" or "crashed".    *)
  wanted,   (* The list this round, or the next one, is for.               *)
  round     (* The attempts of this round: the server and its state.       *)

roundVars == <<phase, wanted, round>>

Attempt == [server : Server, state : {"pending", "up", "down", "dropped"}]

Launch ==
  /\ phase = "launching" /\ Len(round) < Len(wanted)
  /\ round' = Append(round, [server |-> wanted[Len(round) + 1],
                             state |-> "pending"])
  /\ UNCHANGED <<phase, wanted>>

Serve ==
  /\ phase = "launching" /\ Len(round) = Len(wanted)
  /\ phase' = "serving"
  /\ UNCHANGED <<wanted, round>>

(* An attempt ends in any phase but the last ones. *)
Resolve ==
  /\ phase \in {"launching", "serving", "dropping"}
  /\ \E i \in DOMAIN round, end \in {"up", "down"} :
       /\ round[i].state = "pending"
       /\ round' = [round EXCEPT ![i].state = end]
  /\ UNCHANGED <<phase, wanted>>

StartDropping ==
  /\ phase = "serving" /\ phase' = "dropping"
  /\ wanted' \in Lists
  /\ UNCHANGED round

Drop ==
  /\ phase = "dropping"
  /\ \E i \in DOMAIN round :
       /\ round[i].state \in {"up", "down"}
       /\ round' = [round EXCEPT ![i].state = "dropped"]
  /\ UNCHANGED <<phase, wanted>>

AllDropped == \A i \in DOMAIN round : round[i].state = "dropped"

StopDropping ==
  /\ phase = "dropping" /\ phase' \in {"launching", "over"}
  /\ AllDropped
  /\ round' = << >>
  /\ UNCHANGED wanted

(* Only dropping may fail. *)
Crash ==
  /\ phase = "dropping" /\ phase' = "crashed"
  /\ UNCHANGED <<wanted, round>>

RoundsInit ==
  /\ wanted \in Lists
  /\ phase = IF wanted = << >> THEN "serving" ELSE "launching"
  /\ round = << >>

RoundsNext ==
  \/ Launch \/ Serve \/ Resolve
  \/ StartDropping \/ Drop \/ StopDropping \/ Crash

RoundsSpec == RoundsInit /\ [][RoundsNext]_roundVars

=============================================================================
