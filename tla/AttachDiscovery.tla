--------------------------- MODULE AttachDiscovery ---------------------------
(***************************************************************************)
(* Read-only attach discovery, protocol version 1: the device's broker     *)
(* (attach/broker/src/vitadebug_attach_broker.c) and the host clients      *)
(* (attach/host/vdattach/client.py, protocol.py) over one connection each. *)
(*                                                                         *)
(* A client says hello, asks for the identity of one title and receives a  *)
(* ticket bound to it, and later releases the ticket, which tells it       *)
(* whether the title is still the process it discovered.  Meanwhile the    *)
(* title exits and is launched again, leases run out, a client gives up on *)
(* an answer that then arrives late, and connections end.                  *)
(*                                                                         *)
(* Records are sent whole.  An identity is the generation of the process   *)
(* that runs the title, 0 for none.  The broker's calls are serial, as its *)
(* structure has no lock.                                                  *)
(***************************************************************************)
EXTENDS Integers, Sequences, FiniteSets

CONSTANTS Clients,
          MaxSessions, \* VD_ATTACH_BROKER_MAX_SESSIONS
          MaxIds,      \* VD_ATTACH_BROKER_MAX_REQUEST_IDS
          Tokens,      \* what the entropy source may produce
          Lease,       \* ticket_lease_ms
          MaxTime,     \* bound: the clock
          MaxTarget,   \* bound: launches of the title
          MaxSends,    \* bound: requests of one client
          Services     \* subset of {"ready", "unavailable", "lacking"}

VARIABLES session,  \* the broker's sessions, one per connected client
          shutting, \* broker->shutting_down
          service,  \* what the broker was configured to offer
          target,   \* [now: identity of the running process, last: launches]
          clock,
          up, down, \* requests and responses in flight
          host,     \* the client objects
          ghost     \* what happened, for the properties

vars == <<session, shutting, service, target, clock, up, down, host, ghost>>

NoTicket  == [token |-> 0, ident |-> 0, expires |-> 0, by |-> 0]
Closed    == [open |-> FALSE, hello |-> FALSE, ids |-> {}, ticket |-> NoTicket]
NoTarget  == [token |-> 0, ident |-> 0]
NoRequest == [kind |-> "none", id |-> 0, token |-> 0]
NewHost   == [link |-> "none", hello |-> FALSE, target |-> NoTarget,
              waits |-> NoRequest, sends |-> 0]

Init == /\ session = [c \in Clients |-> Closed]
        /\ shutting = FALSE
        /\ service \in Services
        /\ target = [now |-> 1, last |-> 1]
        /\ clock = 0
        /\ up = [c \in Clients |-> <<>>] /\ down = [c \in Clients |-> <<>>]
        /\ host = [c \in Clients |-> NewHost]
        /\ ghost = [during |-> [c \in Clients |-> {}], spent |-> {},
                    old |-> FALSE, wrong |-> FALSE, twice |-> FALSE]

-----------------------------------------------------------------------------
(* The records.  The fields every record of a session repeats (its nonces  *)
(* and the service generation) are the session; the rest of the canonical  *)
(* form is what the parsers below insist on.                               *)

Request(kind, id, token) == [kind |-> kind, id |-> id, token |-> token]
HelloRequest(id) == Request("hello", id, 0)
DiscoverRequest(id) == Request("discover", id, 0)
ReleaseRequest(id, token) == Request("release", id, token)

ParseHello(m) == m.kind = "hello" /\ m.id # 0
ParseDiscover(m) == m.kind = "discover" /\ m.id # 0
ParseRelease(m) == m.kind = "release" /\ m.id # 0 /\ m.token # 0

Result(m, state, token, ident) ==
  [kind |-> m.kind, id |-> m.id, state |-> state, token |-> token, ident |-> ident]
HelloResult(m, state) == Result(m, state, 0, 0)
\* identity and ticket only with "found"
DiscoverResult(m, state, ticket) == Result(m, state, ticket.token, ticket.ident)
ReleaseResult(m, state) == Result(m, state, m.token, 0)

ParseHelloResult(r) == r.kind = "hello" /\ r.state \in {"ready", "unavailable", "lacking"}
ParseDiscoverResult(r) ==
  /\ r.kind = "discover" /\ r.state \in {"found", "not_found", "error"}
  /\ IF r.state = "found" THEN r.token # 0 /\ r.ident # 0 ELSE r.token = 0 /\ r.ident = 0
ParseReleaseResult(r) ==
  /\ r.kind = "release" /\ r.state \in {"released", "missing", "changed", "error"}
  /\ r.token # 0

-----------------------------------------------------------------------------
(* The broker                                                              *)

Live(t) == t # NoTicket
\* vd_expire_tickets, run by every call
Expired(ss) == [c \in Clients |->
                  IF Live(ss[c].ticket) /\ clock >= ss[c].ticket.expires
                  THEN [ss[c] EXCEPT !.ticket = NoTicket] ELSE ss[c]]
InUse(ss) == {ss[c].ticket.token : c \in Clients}

\* vd_request_id_claim: a repeated id, or one too many, ends the session
Claims(s, id) == id \notin s.ids /\ Cardinality(s.ids) < MaxIds
Claimed(s, id) == [s EXCEPT !.ids = @ \union {id}]

\* what discover_exact may report: the running process, that there is none,
\* or that it cannot tell
Inventory == {IF target.now = 0 THEN "not_found" ELSE "found", "error"}

\* an outcome of a handler: the session after it, and the response
Out(s, r) == [s |-> s, r |-> r]

Hello(s, m) ==
  IF s.hello \/ ~ParseHello(m) \/ ~Claims(s, m.id) THEN {}
  ELSE {Out([Claimed(s, m.id) EXCEPT !.hello = TRUE], HelloResult(m, service))}

Discover(s, ss, m) ==
  LET t == Claimed(s, m.id)
      fresh == {[token |-> k, ident |-> target.now, expires |-> clock + Lease, by |-> m.id] :
                  k \in Tokens \ InUse(ss)}
  IN IF ~s.hello \/ ~ParseDiscover(m) \/ ~Claims(s, m.id) THEN {}
     ELSE IF Live(s.ticket) \/ service # "ready" THEN {Out(t, DiscoverResult(m, "error", NoTicket))}
     ELSE UNION {IF i # "found" \/ fresh = {} THEN {Out(t, DiscoverResult(m, IF i = "found" THEN "error" ELSE i, NoTicket))}
                 ELSE {Out([t EXCEPT !.ticket = k], DiscoverResult(m, "found", k)) : k \in fresh} :
                   i \in Inventory}

\* the ticket is consumed before the identity is looked at again
ReleaseWith(s, ss, c, m, Same(_)) ==
  LET t == Claimed(s, m.id)
      used == [t EXCEPT !.ticket = NoTicket]
  IN IF ~s.hello \/ ~ParseRelease(m) \/ ~Claims(s, m.id) THEN {}
     ELSE IF s.ticket.token # m.token
     THEN {Out(t, ReleaseResult(m, IF \E d \in Clients \ {c} : ss[d].ticket.token = m.token
                       THEN "changed" ELSE "missing"))}
     ELSE {Out(used, ReleaseResult(m, CASE i = "found" -> IF Same(s.ticket) THEN "released" ELSE "changed"
                            [] i = "not_found" -> "changed"
                            [] i = "error" -> "error")) : i \in Inventory}
Same(ticket) == ticket.ident = target.now
Always(ticket) == TRUE
ReleaseBlind(s, ss, c, m) == ReleaseWith(s, ss, c, m, Always)
Release(s, ss, c, m) == ReleaseWith(s, ss, c, m, Same)

Handle(ss, c, m) == CASE m.kind = "hello"    -> Hello(ss[c], m)
                      [] m.kind = "discover" -> Discover(ss[c], ss, m)
                      [] m.kind = "release"  -> Release(ss[c], ss, c, m)

\* a session is closed and its connection with it
Drop(c) == /\ session' = [session EXCEPT ![c] = Closed]
           /\ host' = [host EXCEPT ![c].link = IF @ = "open" THEN "ended" ELSE @]
           /\ up' = [up EXCEPT ![c] = <<>>]

\* one turn of vd_attach_broker_serve: read, handle, write
Serve(c) ==
  /\ session[c].open /\ up[c] # <<>>
  /\ LET m == Head(up[c])
         ss == Expired(session)
         outs == Handle(ss, c, m)
     IN IF outs = {}
        THEN Drop(c) /\ UNCHANGED <<down, ghost>>
        ELSE \E o \in outs :
               /\ session' = [ss EXCEPT ![c] = o.s]
               /\ up' = [up EXCEPT ![c] = Tail(@)]
               /\ down' = [down EXCEPT ![c] = Append(@, o.r)]
               /\ UNCHANGED host
               /\ LET by == ss[c].ticket.by
                      owned == m.kind = "release" /\ Live(ss[c].ticket) /\ ss[c].ticket.token = m.token
                      fine == o.r.state = "released"
                  IN ghost' = [ghost EXCEPT
                       !.spent = IF owned THEN @ \union {<<c, by>>} ELSE @,
                       !.twice = @ \/ (fine /\ <<c, by>> \in ghost.spent),
                       !.wrong = @ \/ (fine /\ host[c].target # NoTarget
                                            /\ host[c].target.ident # target.now)]
  /\ UNCHANGED <<shutting, service, target, clock>>

\* no request within io_timeout_ms, or the client has gone
ServeEnds(c) ==
  /\ session[c].open /\ up[c] = <<>>
  /\ Drop(c)
  /\ UNCHANGED <<shutting, service, target, clock, down, ghost>>

\* vd_attach_broker_shutdown clears every session; the serving loops follow
Shutdown ==
  /\ ~shutting /\ shutting' = TRUE
  /\ session' = [c \in Clients |-> Closed]
  /\ up' = [c \in Clients |-> <<>>]
  /\ host' = [c \in Clients |->
                [host[c] EXCEPT !.link = IF @ = "open" THEN "ended" ELSE @]]
  /\ UNCHANGED <<service, target, clock, down, ghost>>

-----------------------------------------------------------------------------
(* The host client                                                         *)

\* connect and vd_attach_broker_open_session; refused without a free session
Connect(c) ==
  /\ host[c].link = "none"
  /\ LET ss == Expired(session)
         fits == ~shutting /\ Cardinality({d \in Clients : ss[d].open}) < MaxSessions
     IN /\ session' = IF fits THEN [ss EXCEPT ![c] = [Closed EXCEPT !.open = TRUE]] ELSE ss
        /\ host' = [host EXCEPT ![c].link = IF fits THEN "open" ELSE "ended"]
  /\ UNCHANGED <<shutting, service, target, clock, up, down, ghost>>

\* the request a call would send, none when the client's state forbids it
Requests(h, id) == (IF ~h.hello THEN {HelloRequest(id)} ELSE {})
    \union (IF h.hello /\ h.target = NoTarget THEN {DiscoverRequest(id)} ELSE {})
    \union (IF h.target # NoTarget THEN {ReleaseRequest(id, h.target.token)} ELSE {})

Send(c) ==
  LET h == host[c]
  IN /\ h.link = "open" /\ h.waits = NoRequest /\ h.sends < MaxSends
     /\ \E m \in Requests(h, h.sends + 1) :
          /\ up' = [up EXCEPT ![c] = Append(@, m)]
          /\ host' = [host EXCEPT ![c].waits = m, ![c].sends = @ + 1]
     /\ ghost' = [ghost EXCEPT !.during[c] = {target.now}]
     /\ UNCHANGED <<session, shutting, service, target, clock, down>>

\* the call raises; the caller may go on with the connection
GivesUp(h) == [h EXCEPT !.waits = NoRequest]
\* a response is bound to the request that is waiting for it
Bound(h, r) == r.id = h.waits.id /\ (r.kind = "release" => r.token = h.waits.token)

HelloReceived(h, r) ==
  IF ParseHelloResult(r) /\ Bound(h, r) /\ r.state = "ready"
  THEN [GivesUp(h) EXCEPT !.hello = TRUE] ELSE GivesUp(h)
DiscoverReceived(h, r) ==
  IF ParseDiscoverResult(r) /\ Bound(h, r) /\ r.state = "found"
  THEN [GivesUp(h) EXCEPT !.target = [token |-> r.token, ident |-> r.ident]] ELSE GivesUp(h)
ReleaseReceived(h, r) ==
  IF ParseReleaseResult(r) /\ Bound(h, r) /\ r.state \in {"released", "missing"}
  THEN [GivesUp(h) EXCEPT !.target = NoTarget] ELSE GivesUp(h)
Received(h, r) == CASE h.waits.kind = "hello"    -> HelloReceived(h, r)
                    [] h.waits.kind = "discover" -> DiscoverReceived(h, r)
                    [] h.waits.kind = "release"  -> ReleaseReceived(h, r)

Receive(c) ==
  /\ host[c].waits # NoRequest /\ down[c] # <<>>
  /\ LET r == Head(down[c])
         h == Received(host[c], r)
     IN /\ host' = [host EXCEPT ![c] = h]
        /\ ghost' = [ghost EXCEPT
             !.old = @ \/ (h.target # host[c].target /\ h.target # NoTarget
                             /\ h.target.ident \notin ghost.during[c]),
             !.during[c] = {}]
  /\ down' = [down EXCEPT ![c] = Tail(@)]
  /\ UNCHANGED <<session, shutting, service, target, clock, up>>

\* the deadline of the exchange passes, or the connection ended
Timeout(c) ==
  /\ host[c].waits # NoRequest /\ (down[c] = <<>> \/ host[c].link = "open")
  /\ host' = [host EXCEPT ![c] = GivesUp(@)]
  /\ ghost' = [ghost EXCEPT !.during[c] = {}]
  /\ UNCHANGED <<session, shutting, service, target, clock, up, down>>

-----------------------------------------------------------------------------

\* the title exits, or is launched as a new process
TargetMoves ==
  /\ \/ target.now # 0 /\ target' = [target EXCEPT !.now = 0]
     \/ target.last < MaxTarget /\ target.now = 0
        /\ target' = [now |-> target.last + 1, last |-> target.last + 1]
  /\ ghost' = [ghost EXCEPT
       !.during = [c \in Clients |-> IF @[c] = {} THEN {} ELSE @[c] \union {target'.now}]]
  /\ UNCHANGED <<session, shutting, service, clock, up, down, host>>

Tick == /\ clock < MaxTime /\ clock' = clock + 1
        /\ UNCHANGED <<session, shutting, service, target, up, down, host, ghost>>

Next == \/ Shutdown \/ TargetMoves \/ Tick
        \/ \E c \in Clients :
             \/ Serve(c) \/ ServeEnds(c)
             \/ Connect(c) \/ Send(c) \/ Receive(c) \/ Timeout(c)

Spec == Init /\ [][Next]_vars

-----------------------------------------------------------------------------
(* Properties                                                              *)

(* Types; no session holds more request ids than its table, and there are  *)
(* never more sessions than the broker has room for.                       *)
TypeOK ==
  /\ \A c \in Clients :
       /\ session[c].open \in BOOLEAN /\ session[c].hello \in BOOLEAN
       /\ session[c].ids \subseteq 1..MaxSends
       /\ Cardinality(session[c].ids) <= MaxIds
       /\ session[c].ticket.token \in Tokens \union {0}
       /\ host[c].link \in {"none", "open", "ended"}
       /\ host[c].target.token \in Tokens \union {0}
  /\ Cardinality({c \in Clients : session[c].open}) <= MaxSessions
  /\ target.now \in 0..MaxTarget /\ clock \in 0..MaxTime

(* A snapshot is never older than the call that returned it: the identity  *)
(* discover() returns belonged to the title at some moment between the     *)
(* request and the answer, even when the answer to an earlier request that *)
(* timed out is still in the stream.                                       *)
SnapshotIsOfThisCall == ~ghost.old

(* "released" means unchanged: when a client is told that its ticket was   *)
(* released, the process it discovered was still the running one when the  *)
(* broker looked again.                                                    *)
ReleasedIsUnchanged == ~ghost.wrong

(* Every release attempt uses its ticket up: once one has reached the      *)
(* broker, whatever its outcome, the same ticket is not released later.    *)
TicketIsOneUse == ~ghost.twice

(* No token is live in two sessions, and a live ticket belongs to an open  *)
(* session that completed its hello.                                       *)
TicketHasOneOwner ==
  \A c, d \in Clients :
    Live(session[c].ticket) =>
      /\ session[c].open /\ session[c].hello
      /\ c # d => session[c].ticket.token # session[d].ticket.token
=============================================================================
