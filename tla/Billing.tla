------------------------------ MODULE Billing ------------------------------
(***************************************************************************)
(* Subscriptions: the payment provider tells the server what happens to a  *)
(* subscription through signed webhooks, which it retries until they are   *)
(* answered with 200.  The webhook route records the event id first and    *)
(* applies the event afterwards, reading the owner's subscription and      *)
(* writing the merged record back; the cancel route and the administrator  *)
(* write the same record.  Requests run concurrently.                      *)
(***************************************************************************)
EXTENDS Naturals, Sequences, FiniteSets

CONSTANTS
  Owners,
  Requests,    \* webhook and cancel requests the server can hold at once
  MaxEvents,   \* bound on the events of an owner
  MaxCrashes,  \* bound on the requests cut short
  NoOwner      \* the owner of a request slot that is free

ASSUME BillingAssumption ==
  /\ MaxEvents \in Nat
  /\ MaxCrashes \in Nat
  /\ NoOwner \notin Owners

VARIABLES
  serial,     \* serial[o]: whether the provider sends o's events in order and
              \* one delivery at a time, which no provider guarantees
  provider,   \* provider[o]: the subscription on the provider's side
  events,     \* events[o]: the types of the events it has issued, in order
  answered,   \* answered[o]: the positions it need not send again
  processed,  \* processed[o]: the event ids in billing_events, as positions
  sub,        \* sub[o]: the stored subscription
  request,    \* request[r]: a webhook or cancel request being handled
  applied,    \* applied[o][n]: how often event n was written to sub[o]
  trail,      \* trail[o]: the audit rows, as the positions applied (0: local)
  waived,     \* owners that cancelled here or were given a plan by an admin
  crashes

billingVars == <<serial, provider, events, answered, processed, sub, request, applied, trail,
          waived, crashes>>

Types == {"created", "updated", "canceled"}
Plans == {"free", "pro"}
Subscription == [plan : Plans \cup {"unset"}, active : BOOLEAN, ref : BOOLEAN]
NoSub == [plan |-> "unset", active |-> FALSE, ref |-> FALSE]

Free == [pc |-> "idle", owner |-> NoOwner, event |-> 0, old |-> NoSub]
Request == [pc : {"idle", "mark", "get", "save", "audit"},
            owner : Owners \cup {NoOwner}, event : 0..MaxEvents,
            old : Subscription]

BillingInit ==
  /\ serial \in [Owners -> BOOLEAN]
  /\ provider = [o \in Owners |-> "none"]
  /\ events = [o \in Owners |-> <<>>]
  /\ answered = [o \in Owners |-> {}]
  /\ processed = [o \in Owners |-> {}]
  /\ sub = [o \in Owners |-> NoSub]
  /\ request = [r \in Requests |-> Free]
  /\ applied = [o \in Owners |-> [n \in 1..MaxEvents |-> 0]]
  /\ trail = [o \in Owners |-> <<>>]
  /\ waived = {}
  /\ crashes = 0

BillingTypeOK ==
  /\ serial \in [Owners -> BOOLEAN]
  /\ provider \in [Owners -> {"none", "active", "ending", "ended"}]
  /\ events \in [Owners -> Seq(Types)]
  /\ answered \in [Owners -> SUBSET (1..MaxEvents)]
  /\ processed \in [Owners -> SUBSET (1..MaxEvents)]
  /\ sub \in [Owners -> Subscription]
  /\ request \in [Requests -> Request]
  /\ applied \in [Owners -> [1..MaxEvents -> Nat]]
  /\ trail \in [Owners -> Seq(0..MaxEvents)]
  /\ waived \subseteq Owners
  /\ crashes \in 0..MaxCrashes

\* resolveEntitlements(): anything but an active subscription is free.
Entitled(o) == sub[o].active /\ sub[o].plan \in Plans \ {"free"}

-----------------------------------------------------------------------------
(* The provider.                                                           *)

Issue(o, from, to, type) ==
  /\ provider[o] \in from
  /\ Len(events[o]) < MaxEvents
  /\ provider' = [provider EXCEPT ![o] = to]
  /\ events' = [events EXCEPT ![o] = Append(@, type)]

ProviderStep(o) ==
  /\ \/ Issue(o, {"none", "ended"}, "active", "created")    \* checkout is paid
     \/ Issue(o, {"active"}, "active", "updated")           \* renewal
     \/ Issue(o, {"active", "ending"}, "ended", "canceled") \* not paid, or over
  /\ UNCHANGED <<serial, answered, processed, sub, request, applied, trail, waived, crashes>>

\* The provider sends, or sends again, an event that was not answered yet.
Deliver(r, o, n) ==
  /\ request[r].pc = "idle"
  /\ n \in 1..Len(events[o]) \ answered[o]
  /\ serial[o] => /\ 1..(n - 1) \subseteq answered[o]
                  /\ \A q \in Requests : request[q].owner # o
  /\ request' = [request EXCEPT ![r] = [pc |-> "mark", owner |-> o, event |-> n,
                                        old |-> NoSub]]
  /\ UNCHANGED <<serial, provider, events, answered, processed, sub, applied, trail,
                 waived, crashes>>

-----------------------------------------------------------------------------
(* POST /api/billing/webhook.                                              *)

\* Seeded fault: the id is recorded only when the event has been applied.
MarkUnchecked(r) ==
  LET o == request[r].owner
  IN  /\ request[r].pc = "mark"
      /\ processed' = [processed EXCEPT ![o] = @ \cup {request[r].event}]
      /\ request' = [request EXCEPT ![r].pc = "get"]
      /\ UNCHANGED <<serial, provider, events, answered, sub, applied, trail, waived, crashes>>

\* markEventProcessed(): the insert says whether the id is new.  A known id is
\* answered at once, also while another request still applies the event.
Mark(r) ==
  LET o == request[r].owner
      n == request[r].event
  IN  /\ request[r].pc = "mark"
      /\ IF n \in processed[o]
         THEN /\ request' = [request EXCEPT ![r] = Free]
              /\ answered' = [answered EXCEPT ![o] = @ \cup {n}]
              /\ UNCHANGED processed
         ELSE /\ request' = [request EXCEPT ![r].pc = "get"]
              /\ processed' = [processed EXCEPT ![o] = @ \cup {n}]
              /\ UNCHANGED answered
      /\ UNCHANGED <<serial, provider, events, sub, applied, trail, waived, crashes>>

\* applyWebhookEvent(): read the subscription ...
ApplyGet(r) ==
  /\ request[r].pc = "get"
  /\ request' = [request EXCEPT ![r].pc = "save", ![r].old = sub[request[r].owner]]
  /\ UNCHANGED <<serial, provider, events, answered, processed, sub, applied, trail,
                 waived, crashes>>

\* ... merge the event into what was read ...
TypeOf(r) == IF request[r].event = 0 THEN "canceled"
                                     ELSE events[request[r].owner][request[r].event]

\* Seeded fault: no fallback to the stored plan.
MergedWithoutPlan(r) ==
  LET type == TypeOf(r)
  IN  [plan |-> IF type = "created" THEN "pro" ELSE "free",
       active |-> type # "canceled",
       ref |-> request[r].event # 0 \/ request[r].old.ref]

\* A created event carries the plan of its checkout; an event that carries none
\* keeps the plan that was read, or else means pro (free for a cancellation).
Merged(r) ==
  LET type == TypeOf(r)
      old == request[r].old
  IN  [plan |-> CASE type = "created" -> "pro"
                  [] type # "created" /\ old.plan # "unset" -> old.plan
                  [] OTHER -> IF type = "canceled" THEN "free" ELSE "pro",
       active |-> type # "canceled",
       ref |-> request[r].event # 0 \/ old.ref]

\* Seeded fault: the request is answered without an audit row.
ApplySaveUnaudited(r) ==
  LET o == request[r].owner
      n == request[r].event
  IN  /\ request[r].pc = "save"
      /\ sub' = [sub EXCEPT ![o] = Merged(r)]
      /\ applied' = IF n = 0 THEN applied ELSE [applied EXCEPT ![o][n] = @ + 1]
      /\ answered' = IF n = 0 THEN answered ELSE [answered EXCEPT ![o] = @ \cup {n}]
      /\ request' = [request EXCEPT ![r] = Free]
      /\ UNCHANGED <<serial, provider, events, processed, trail, waived, crashes>>

ApplySave(r) ==
  LET o == request[r].owner
      n == request[r].event
  IN  /\ request[r].pc = "save"
      /\ sub' = [sub EXCEPT ![o] = Merged(r)]
      /\ applied' = IF n = 0 THEN applied ELSE [applied EXCEPT ![o][n] = @ + 1]
      /\ request' = [request EXCEPT ![r].pc = "audit"]
      /\ UNCHANGED <<serial, provider, events, answered, processed, trail, waived, crashes>>

\* ... and write the audit row; the request is answered.
ApplyAudit(r) ==
  LET o == request[r].owner
      n == request[r].event
  IN  /\ request[r].pc = "audit"
      /\ trail' = [trail EXCEPT ![o] = Append(@, n)]
      /\ answered' = IF n = 0 THEN answered ELSE [answered EXCEPT ![o] = @ \cup {n}]
      /\ request' = [request EXCEPT ![r] = Free]
      /\ UNCHANGED <<serial, provider, events, processed, sub, applied, waived, crashes>>

\* POST /api/billing/cancel: the provider is asked first, if the subscription
\* holds its reference, and answers with an event that the subscription ends
\* with its period; then a cancellation is applied as if it had been received.
\* The provider refuses to cancel what is over: the request fails, unchanged.
Cancel(r, o) ==
  /\ request[r].pc = "idle"
  /\ sub[o].ref => provider[o] # "ended"
  /\ o \notin waived
  /\ waived' = waived \cup {o}
  /\ request' = [request EXCEPT ![r] = [pc |-> "get", owner |-> o, event |-> 0,
                                        old |-> NoSub]]
  /\ IF sub[o].ref /\ provider[o] = "active"
     THEN Issue(o, {"active"}, "ending", "updated")
     ELSE UNCHANGED <<provider, events>>
  /\ UNCHANGED <<serial, answered, processed, sub, applied, trail, crashes>>

\* Seeded fault: a plan that is not configured is accepted.
AdminSetPlanUnchecked(o, plan) ==
  /\ o \notin waived
  /\ waived' = waived \cup {o}
  /\ sub' = [sub EXCEPT ![o] = [plan |-> "vip", active |-> TRUE, ref |-> FALSE]]
  /\ UNCHANGED <<serial, provider, events, answered, processed, request, applied, trail, crashes>>

\* POST /api/admin/users/:id/plan: a new record, without the reference.
AdminSetPlan(o, plan) ==
  /\ o \notin waived
  /\ waived' = waived \cup {o}
  /\ sub' = [sub EXCEPT ![o] = [plan |-> plan, active |-> TRUE, ref |-> FALSE]]
  /\ UNCHANGED <<serial, provider, events, answered, processed, request, applied, trail, crashes>>

\* The server dies, or one of the repository calls fails: the request is not
\* answered, or answered with 500.
Cut(r) ==
  /\ request[r].pc # "idle"
  /\ crashes < MaxCrashes
  /\ crashes' = crashes + 1
  /\ request' = [request EXCEPT ![r] = Free]
  /\ UNCHANGED <<serial, provider, events, answered, processed, sub, applied, trail, waived>>

BillingNext ==
  \/ \E o \in Owners : ProviderStep(o)
  \/ \E r \in Requests, o \in Owners :
       \/ \E n \in 1..MaxEvents : Deliver(r, o, n)
       \/ Cancel(r, o)
  \/ \E r \in Requests :
       Mark(r) \/ ApplyGet(r) \/ ApplySave(r) \/ ApplyAudit(r) \/ Cut(r)
  \/ \E o \in Owners, plan \in Plans : AdminSetPlan(o, plan)

BillingSpec == BillingInit /\ [][BillingNext]_billingVars

-----------------------------------------------------------------------------
\* Nothing is under way for the owner, and no event was marked and then lost.
Settled(o) ==
  /\ answered[o] = 1..Len(events[o])
  /\ \A r \in Requests : request[r].owner # o
  /\ \A n \in processed[o] : applied[o][n] > 0

\* Once every event was answered, an owner whose subscription is over has no
\* paid plan, and one whose subscription runs has it -- if the provider sends
\* one event at a time, with all the retries that cut requests call for.
EntitledAsPaid ==
  \A o \in Owners : serial[o] /\ Settled(o) /\ o \notin waived
    => (Entitled(o) <=> provider[o] = "active")

\* However often the provider sends an event, and however its deliveries
\* overlap or are cut short, the subscription is changed by it once at most;
\* and every change that an event made is in the audit trail, but for the ones
\* whose request was cut short in between.
AppliedOnceAndAudited ==
  \A o \in Owners :
    /\ \A n \in 1..MaxEvents : applied[o][n] <= 1
    /\ \A n \in answered[o] :
         applied[o][n] > 0 /\ crashes = 0 /\ (\A r \in Requests : request[r].owner # o)
           => \E i \in DOMAIN trail[o] : trail[o][i] = n
=============================================================================
