----------------------------- MODULE Transport -----------------------------
(***************************************************************************)
(* One bounded request to a model (model_transport.chat): the name is      *)
(* resolved by a worker thread that takes one of a few slots, a timer      *)
(* closes the connection at the deadline, and every step of the caller     *)
(* checks the deadline.  The peer answers, stalls, trickles or drops as it *)
(* likes; contents are abstracted to the way a call ends.                  *)
(*                                                                         *)
(* Caller c has at most one call; what it is for is the business of the    *)
(* module that extends this one.                                           *)
(***************************************************************************)
EXTENDS Integers, FiniteSets

CONSTANTS
  Callers,   \* the models that are called
  Slots      \* _DNS_SLOTS

ASSUME SlotsAssumption == Slots \in Nat \ {0} /\ IsFiniteSet(Callers)

VARIABLES
  at,         \* where each call is; "idle" without one
  direct,     \* the calls to a loopback address: no resolution, no TLS
  late,       \* the callers whose deadline has passed
  timer,      \* "off", "armed" or "fired"
  wire,       \* _wire_socket: "none", "raw", "detached" (in TLS), "open", "closed"
  resolving,  \* the callers that wait for their resolver
  abandoned,  \* resolvers nobody waits for, not yet at their release()
  slots       \* free slots

tvars == <<at, direct, late, timer, wire, resolving, abandoned, slots>>

Reached == {"resolve", "prepare", "socket", "connect", "handshake", "headers", "body"}
Endings == {"answered", "timeout", "broken", "other"}

(* The error codes that end a check (UPSTREAM_TIMEOUT, UPSTREAM_UNAVAILABLE, *)
(* AUTH_FAILED, RATE_LIMITED, MODEL_UNAVAILABLE) are "timeout" and "broken". *)

TransportInit ==
  /\ at = [c \in Callers |-> "idle"]
  /\ direct = {} /\ late = {}
  /\ timer = [c \in Callers |-> "off"]
  /\ wire = [c \in Callers |-> "none"]
  /\ resolving = {} /\ abandoned = 0 /\ slots = Slots

Goto(c, place) == at' = [at EXCEPT ![c] = place]

(* The finally clause cancels the timer and closes the connection.         *)
End(c, how) ==
  /\ Goto(c, how)
  /\ timer' = [timer EXCEPT ![c] = "off"]
  /\ wire' = [wire EXCEPT ![c] = "none"]
  /\ late' = late \ {c}
  /\ direct' = direct \ {c}

EndHere(c, how) == End(c, how) /\ UNCHANGED <<resolving, abandoned, slots>>

Proceed(c, place, w) ==
  /\ Goto(c, place)
  /\ wire' = [wire EXCEPT ![c] = w]
  /\ UNCHANGED <<direct, late, timer, resolving, abandoned, slots>>

(* How an exception is told: past the deadline it is a timeout.            *)
Broken(c) == EndHere(c, IF c \in late \/ timer[c] = "fired" THEN "timeout" ELSE "broken")

-----------------------------------------------------------------------------
Chat(c, loopback) ==
  /\ at[c] = "idle"
  /\ direct' = IF loopback THEN direct \cup {c} ELSE direct
  /\ \/ loopback /\ Goto(c, "prepare") /\ UNCHANGED <<resolving, slots>>
     \/ /\ ~loopback /\ slots > 0
        /\ slots' = slots - 1
        /\ resolving' = resolving \cup {c}
        /\ Goto(c, "resolve")
     \/ /\ ~loopback               \* no slot, or the thread does not start
        /\ Goto(c, "broken") /\ UNCHANGED <<resolving, slots>>
  /\ UNCHANGED <<late, timer, wire, abandoned>>

(* The resolver puts its result and is about to release its slot.          *)
Resolved(c) ==
  /\ at[c] = "resolve"
  /\ resolving' = resolving \ {c}
  /\ abandoned' = abandoned + 1
  /\ UNCHANGED slots
  /\ \/ Goto(c, "prepare") /\ UNCHANGED <<direct, late, timer, wire>>
     \/ \E how \in {"broken", "other"} : End(c, how)    \* or not a public address

(* A plausible slip: the caller that gives up releases the slot as well.   *)
ResolveTimeoutReleases(c) ==
  /\ at[c] = "resolve" /\ c \in late
  /\ resolving' = resolving \ {c}
  /\ abandoned' = abandoned + 1
  /\ slots' = slots + 1
  /\ End(c, "timeout")

ResolveTimeout(c) ==
  /\ at[c] = "resolve" /\ c \in late
  /\ resolving' = resolving \ {c}
  /\ abandoned' = abandoned + 1
  /\ UNCHANGED slots
  /\ End(c, "timeout")

Release ==
  /\ abandoned > 0
  /\ abandoned' = abandoned - 1
  /\ slots' = slots + 1
  /\ UNCHANGED <<at, direct, late, timer, wire, resolving>>

(* The connection object and its timer.                                    *)
Prepare(c) ==
  /\ at[c] = "prepare"
  /\ IF c \in late THEN EndHere(c, "timeout")
     ELSE /\ Goto(c, "socket")
          /\ timer' = [timer EXCEPT ![c] = "armed"]
          /\ UNCHANGED <<direct, late, wire, resolving, abandoned, slots>>

Socket(c) ==
  /\ at[c] = "socket"
  /\ IF c \in late THEN EndHere(c, "timeout") ELSE Proceed(c, "connect", "raw")

(* connect() blocks no longer than the time that was left before it.       *)
Connect(c) ==
  /\ at[c] = "connect"
  /\ IF wire[c] = "closed" \/ c \in late THEN EndHere(c, "timeout")
     ELSE \/ c \in direct /\ Proceed(c, "headers", "open")
          \/ c \notin direct /\ Proceed(c, "handshake", "detached")
          \/ Broken(c)

(* During the handshake _wire_socket is the detached socket: expire() does *)
(* not reach the connection, the socket's own timeout does.                *)
Handshake(c) ==
  /\ at[c] = "handshake"
  /\ IF c \in late THEN EndHere(c, "timeout")
     ELSE Proceed(c, "headers", "open") \/ Broken(c)

(* A peer that trickles its headers renews the socket's timeout for ever.  *)
Headers(c) ==
  /\ at[c] = "headers" /\ wire[c] = "open"
  /\ IF c \in late THEN EndHere(c, "timeout")
     ELSE \/ Proceed(c, "body", "open")
          \/ EndHere(c, "other")     \* a redirect, a refusal, a bad header
          \/ Broken(c)

HeadersExpired(c) == at[c] = "headers" /\ wire[c] = "closed" /\ EndHere(c, "timeout")

Body(c) ==
  /\ at[c] = "body"
  /\ IF c \in late \/ wire[c] = "closed" THEN EndHere(c, "timeout")
     ELSE \E how \in {"answered", "other", "broken"} : EndHere(c, how)

(* expire: before there is a socket it only sets a flag.                   *)
TimerFiresFlagOnly(c) ==
  /\ c \in late /\ timer[c] = "armed"
  /\ timer' = [timer EXCEPT ![c] = "fired"]
  /\ UNCHANGED <<at, direct, late, wire, resolving, abandoned, slots>>

TimerFires(c) ==
  /\ c \in late /\ timer[c] = "armed"
  /\ timer' = [timer EXCEPT ![c] = "fired"]
  /\ wire' = [wire EXCEPT ![c] = IF @ \in {"raw", "open"} THEN "closed" ELSE @]
  /\ UNCHANGED <<at, direct, late, resolving, abandoned, slots>>

DeadlinePasses(c) ==
  /\ at[c] \in Reached /\ c \notin late
  /\ late' = late \cup {c}
  /\ UNCHANGED <<at, direct, timer, wire, resolving, abandoned, slots>>

(* What the caller's thread does by itself.                                *)
CallerStep(c) ==
  ResolveTimeout(c) \/ Prepare(c) \/ Socket(c) \/ Connect(c) \/ Handshake(c)
  \/ HeadersExpired(c) \/ Body(c)

TransportNext ==
  \/ Release
  \/ \E c \in Callers :
       CallerStep(c) \/ Resolved(c) \/ Headers(c) \/ TimerFires(c) \/ DeadlinePasses(c)

-----------------------------------------------------------------------------
(* No slot is lost and none is made up, whichever of a caller and its       *)
(* resolver gives up or finishes first.                                    *)
SlotsConserved ==
  /\ slots + Cardinality(resolving) + abandoned = Slots
  /\ resolving = {c \in Callers : at[c] = "resolve"}

=============================================================================
