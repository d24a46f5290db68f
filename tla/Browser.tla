------------------------------ MODULE Browser ------------------------------
(***************************************************************************)
(* The execution model of the web console (frontend/apps/web): one page is *)
(* mounted in the browser and talks to the server by fetch.  Every async   *)
(* handler of a page is split where it awaits:                             *)
(*                                                                         *)
(*   - a click runs the handler up to its first await (User, Ask);         *)
(*   - the server serves the request at some later moment (Serve in        *)
(*     Console), or the request fails, before or after it took effect;     *)
(*   - the promise resumes at some moment after that, in any order         *)
(*     relative to the other promises of the page (Resume).                *)
(*                                                                         *)
(* setInterval callbacks (Tick) and what other users and the workers do to *)
(* the server's data (World) interleave with these.  A page module gives   *)
(* the page's state (ui), the data the server keeps for it (db), its       *)
(* handlers, and the conditions its JSX puts on the controls.              *)
(***************************************************************************)
EXTENDS Naturals, FiniteSets, Sequences

CONSTANTS
    Rows,       \* identifiers of server-side objects
    None,       \* null
    MaxCalls,   \* bound: requests of the page in flight at once
    MaxOps,     \* bound: requests the user starts in a behaviour
    MaxEvents   \* bound: failed requests and foreign changes in a behaviour

\* (Some pages are mounted with two requests.)
ASSUME BrowserAssumption ==
    /\ MaxCalls \in Nat \ {0, 1}
    /\ MaxOps \in Nat
    /\ MaxEvents \in Nat
    /\ IsFiniteSet(Rows) /\ Rows # {} /\ None \notin Rows

\* null differs from the words that stand where null may stand.
Words == {"submit", "recompute", "created", "apply", "all", "images", "folder", "busy"}
ASSUME NullAssumption == None \notin Words

VARIABLES
    screen,     \* the page Next.js has mounted
    ui,         \* its React state
    db,         \* the server's data behind it
    net,        \* awaited requests, by slot
    ops, evs,   \* counters for the bounds
    mixed       \* two answers about the same thing were applied out of order

vars == <<screen, ui, db, net, ops, evs, mixed>>

Slots == 1..MaxCalls

\* An empty slot.
NoCall  == [k |-> "", a |-> None, st |-> "", r |-> None]
NoCalls == [s \in Slots |-> NoCall]

----------------------------------------------------------------------------
(* Requests in flight.                                                     *)

Idle(m) == {s \in Slots : m[s] = NoCall}
Room(n) == Cardinality(Idle(net)) >= n

\* fetch: k names the API function, a its arguments.
Send(m, k, a) ==
    LET s == CHOOSE s \in Idle(m) : \A t \in Idle(m) : s <= t
    IN  [m EXCEPT ![s] = [k |-> k, a |-> a, st |-> "sent", r |-> None]]

Busy(s) == net[s] # NoCall
Ok(s)   == net[s].st = "ok"
Rest(s) == [net EXCEPT ![s] = NoCall]
Got(s, old) == IF Ok(s) THEN net[s].r ELSE old

\* The component that awaits the readings in flight is unmounted: their answers
\* will be ignored.
Abandon(m) == [s \in Slots |-> IF m[s] = NoCall THEN NoCall ELSE [m[s] EXCEPT !.k = "gone", !.a = None]]

InFlight(K) == {s \in Slots : Busy(s) /\ net[s].k \in K}

\* Requests whose continuation patches the page's copy of a row in place.
Patching == {"toggle", "patch", "pack"}

\* Requests that read what the page's main list shows; those with different
\* arguments (a filter, a page number) ask for different lists.
Listing == {"list", "load", "poll"}

\* Requests that write the whole of what the page shows.
Saving == {"boxes", "meta"}

\* The answer in slot s is applied while another request that bears on the same
\* data is out, so that the two may land in the wrong order: two readings, two
\* patches of one row, two writes of the same thing, or one of these and any
\* other request.
Overtakes(s) ==
    \E t \in Slots \ {s} :
        /\ Busy(t)
        /\ LET p == net[s].k \in Patching
               q == net[t].k \in Patching
               v == net[s].k \in Saving
               w == net[t].k \in Saving
           IN  CASE p /\ q   -> net[s].a.id = net[t].a.id
                 [] p # q    -> TRUE
                 [] v /\ w   -> net[s].k = net[t].k
                 [] v # w    -> TRUE
                 [] OTHER    -> \/ net[s].r # None /\ net[t].r # None
                                \/ /\ {net[s].k, net[t].k} \subseteq Listing
                                   /\ net[s].a # net[t].a

----------------------------------------------------------------------------
(* The forms every step of a page has.                                     *)

\* A handler that only sets state.
User(u) ==
    /\ ui' = u
    /\ UNCHANGED <<screen, db, net, ops, evs, mixed>>

\* A handler that sets state and starts a request.
Ask(u, k, a) ==
    /\ ops < MaxOps
    /\ Room(1)
    /\ ops' = ops + 1
    /\ ui' = u
    /\ net' = Send(net, k, a)
    /\ UNCHANGED <<screen, db, evs, mixed>>

\* The continuation of the promise in slot s, with the requests it leaves.
Resume(s, u, m) ==
    /\ ui' = u
    /\ net' = m
    /\ mixed' = (mixed \/ Overtakes(s))
    /\ UNCHANGED <<screen, db, ops, evs>>

\* A setInterval or setTimeout callback.
Fire(u, m) ==
    /\ ui' = u
    /\ net' = m
    /\ UNCHANGED <<screen, db, ops, evs, mixed>>

Tick(u, k, a) == Room(1) /\ Fire(u, Send(net, k, a))

\* Another user or a worker changes the server's data.
World(d) ==
    /\ evs < MaxEvents
    /\ evs' = evs + 1
    /\ db' = d
    /\ UNCHANGED <<screen, ui, net, ops, mixed>>
=============================================================================
