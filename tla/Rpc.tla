--------------------------------- MODULE Rpc ---------------------------------
(***************************************************************************)
(* Read-only JSON-RPC calls: scripts/phase5/lib/rpc.js.                    *)
(*                                                                         *)
(* The state is the batch of calls a caller awaits together (one           *)
(* Promise.all, or a single await).  A call asks the endpoints of its      *)
(* chain one after the other: a failed request (timeout, HTTP status, a    *)
(* body that is no JSON) sends it to the next one, any JSON body ends it.  *)
(* The answer of a node is a choice of its environment, the rest is code.  *)
(***************************************************************************)
EXTENDS Naturals, FiniteSets

CONSTANT RPC_ENDPOINTS      \* how many endpoints each chain in the list has

ASSUME EndpointsAssumption == RPC_ENDPOINTS \in [DOMAIN RPC_ENDPOINTS -> Nat \ {0}]

VARIABLE call               \* the calls awaited: what failed, and how it ended

(* What an endpoint can answer with, and what the caller makes of it: a    *)
(* body without a result, or with "0x", is "empty return data"; a body     *)
(* with an error counts as a revert; reading a property of null throws.    *)
Bodies == {"result", "noResult", "error", "null"}

Ending == [result |-> "value", noResult |-> "empty", error |-> "reverted", null |-> "thrown"]

Endings == {"value", "empty", "reverted", "thrown", "unreachable"}

Call == [tries : Nat, out : Endings \cup {"pending"}]

(* A chain that is not in the list has none.                               *)
Endpoints(chain) == IF chain \in DOMAIN RPC_ENDPOINTS THEN RPC_ENDPOINTS[chain] ELSE 0

Fresh(chain) ==
  [tries |-> 0, out |-> IF Endpoints(chain) = 0 THEN "unreachable" ELSE "pending"]

Issue(chain, calls) == call' = [c \in calls |-> Fresh(chain)]

(* A slip: the last endpoint is never asked.                               *)
AfterFailureStopsEarly(chain, c) ==
  [tries |-> call[c].tries + 1,
   out   |-> IF call[c].tries + 2 < Endpoints(chain) THEN "pending" ELSE "unreachable"]

(* for (const url of urls) ... catch: the next endpoint, if there is one.  *)
AfterFailure(chain, c) ==
  [tries |-> call[c].tries + 1,
   out   |-> IF call[c].tries + 1 < Endpoints(chain) THEN "pending" ELSE "unreachable"]

PostFails(chain, c) ==
  /\ call[c].out = "pending"
  /\ call' = [call EXCEPT ![c] = AfterFailure(chain, c)]

PostAnswers(c, body) ==
  /\ call[c].out = "pending"
  /\ call' = [call EXCEPT ![c].out = Ending[body]]

(* A slip: an unreachable chain keeps the caller waiting.                  *)
SettledByAnswers == \A c \in DOMAIN call : call[c].out \notin {"pending", "thrown", "unreachable"}

(* What the awaiting caller sees.  A rejected call rejects the batch, even *)
(* while other calls of it are still under way.                            *)
Settled == \A c \in DOMAIN call : call[c].out \notin {"pending", "thrown"}

Rejected == \E c \in DOMAIN call : call[c].out = "thrown"

Read == {c \in DOMAIN call : call[c].out = "value"}
=============================================================================
