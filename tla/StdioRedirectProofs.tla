------------------------ MODULE StdioRedirectProofs ------------------------
(***************************************************************************)
(* The redirection of stdout and stderr and its restore, with any number of *)
(* failing calls: nothing that is needed is closed, nothing that is open is *)
(* forgotten, and the join under the mutex returns.                         *)
(***************************************************************************)
EXTENDS StdioRedirect, FiniteSetTheorems, TLAPS

(* What stdio_state holds: a descriptor, or None, for each of eight handles. *)
Handles == {"read", "write", "savedOut", "savedErr", "redirectOut", "redirectErr",
            "restoreOut", "restoreErr"}
Saved(s) == IF s = "stdout" THEN "savedOut" ELSE "savedErr"
ToRedirect(s) == IF s = "stdout" THEN "redirectOut" ELSE "redirectErr"
ToRestore(s) == IF s = "stdout" THEN "restoreOut" ELSE "restoreErr"
Late == {"redirectOut", "redirectErr", "restoreOut", "restoreErr"}

HeldOf(s) ==
    [h \in Handles |->
            CASE h = "read" -> s.readFd
              [] h = "write" -> s.writeFd
              [] h = "savedOut" -> s.saved["stdout"]
              [] h = "savedErr" -> s.saved["stderr"]
              [] h = "redirectOut" -> s.deferred[<<"stdout", "redirect">>]
              [] h = "redirectErr" -> s.deferred[<<"stderr", "redirect">>]
              [] h = "restoreOut" -> s.deferred[<<"stdout", "restore">>]
              [] h = "restoreErr" -> s.deferred[<<"stderr", "restore">>]]
Held == HeldOf(st)

(* Handle h holds f from now on; handle k takes over what h holds. *)
Put(held, h, f) == [held EXCEPT ![h] = f]
Pass(held, h, k) == [held EXCEPT ![h] = None, ![k] = held[h]]
Drop(held, gone) == [h \in Handles |-> IF h \in gone THEN None ELSE held[h]]

(* What may be behind a descriptor held as h, with b the last socket pair. *)
Allowed(h, b) ==
    CASE h = "read" -> {ReadEnd(b)}
      [] h = "write" -> {WriteEnd(b)}
      [] h = "savedOut" -> {Original("stdout")}
      [] h = "savedErr" -> {Original("stderr")}
      [] h = "redirectOut" -> {Original("stdout"), WriteEnd(b)}
      [] h = "redirectErr" -> {Original("stderr"), WriteEnd(b)}
      [] h \in {"restoreOut", "restoreErr"} -> {WriteEnd(b)}

StType == [active : BOOLEAN, redirected : [Streams -> BOOLEAN],
           readFd : Nat, writeFd : Nat, saved : [Streams -> Nat],
           deferred : [Slots -> Nat], thread : 0 .. MaxBridges, started : BOOLEAN,
           ready : BOOLEAN, wakeProven : BOOLEAN]

Pcs == {"idle", "saveOut", "saveErr", "bridge", "thread", "wait", "moveOut", "moveErr", "moved",
        "undoOut", "undoErr", "undone", "closeSaved", "shutdown", "closeWriter", "join",
        "closeReader", "closeDeferred"}

Types ==
    /\ fdmap \in [Fds -> Objects]
    /\ st \in StType
    /\ pc \in [Callers -> Pcs]
    /\ op \in [Callers -> {"redirect", "restore"}]
    /\ result \in [Callers -> {"ok", "error"}]
    /\ reader \in [Bridges -> {"none", "starting", "reading", "exited"}]
    /\ shut \subseteq 1 .. bridges
    /\ bridges \in 0 .. MaxBridges

(* The table of descriptors is what stdio_state says, and nothing else: the  *)
(* descriptors held are different ones, they are the open ones besides 1 and *)
(* 2, and each is open for what it is held for.                             *)
Table(m, held, b) ==
    /\ held \in [Handles -> {None} \cup 3 .. MaxFd]
    /\ \A g, h \in Handles : g # h /\ held[g] # None => held[g] # held[h]
    /\ \A f \in 3 .. MaxFd : m[f] # Closed => \E h \in Handles : held[h] = f
    /\ \A h \in Handles : held[h] # None => m[held[h]] \in Allowed(h, b)

(* A stream that is redirected writes to the pair and has its backup. *)
StreamsSound ==
    \A s \in Streams :
        /\ st.redirected[s] => /\ fdmap[Fd(s)] = WriteEnd(bridges) /\ bridges \notin shut
                               /\ Held[Saved(s)] # None
        /\ ~st.redirected[s] => fdmap[Fd(s)] = Original(s)

(* The capture thread, and the proof that its read returns. *)
ThreadSound ==
    /\ st.started => st.thread = bridges /\ bridges # 0
    /\ \A b \in Bridges : reader[b] # "none" => st.started /\ st.thread = b
    /\ st.started /\ st.wakeProven => Eof(bridges)

(* What holds at each place of a call. *)
NoneHeld(hs) == \A h \in hs : Held[h] = None
Untouched == ~st.active /\ ~st.started /\ ~SomeRedirected
Stage(c) ==
    /\ pc[c] \notin {"idle", "wait"} => mutex = c
    /\ pc[c] = "idle" => mutex = NoCaller
    /\ pc[c] = "wait" => mutex \in {c, NoCaller}
    /\ pc[c] = "idle" /\ ~st.active => Untouched /\ NoneHeld(Handles)
    /\ pc[c] = "idle" /\ op[c] = "restore" /\ result[c] = "ok" => ~SomeRedirected
    /\ pc[c] \in {"saveOut", "saveErr", "bridge", "thread", "wait", "moveOut", "moveErr", "moved"}
          => op[c] = "redirect"
    /\ pc[c] # "idle" => (st.active <=> op[c] = "restore")
    /\ pc[c] = "saveOut" => Untouched /\ NoneHeld(Handles)
    /\ pc[c] = "saveErr" => Untouched /\ NoneHeld(Handles \ {"savedOut"}) /\ Held["savedOut"] # None
    /\ pc[c] = "bridge" => /\ Untouched /\ NoneHeld(Handles \ {"savedOut", "savedErr"})
                           /\ Held["savedOut"] # None /\ Held["savedErr"] # None
    /\ pc[c] \in {"thread", "wait", "moveOut", "moveErr"} =>
          /\ ~st.wakeProven /\ bridges # 0 /\ bridges \notin shut
          /\ Held["savedOut"] # None /\ Held["savedErr"] # None /\ Held["write"] # None
    /\ pc[c] = "thread" => Untouched
    /\ pc[c] \in {"wait", "moveOut"} => ~SomeRedirected
    /\ pc[c] = "moveErr" => ~st.redirected["stderr"]
    /\ pc[c] = "closeSaved" /\ op[c] = "restore" => ~SomeRedirected
    /\ pc[c] \in {"shutdown", "closeWriter", "join", "closeReader"} => ~SomeRedirected
    /\ pc[c] = "join" => st.started /\ st.wakeProven
    /\ pc[c] = "closeReader" => ~st.started

Inv ==
    /\ Types
    /\ Table(fdmap, Held, bridges)
    /\ StreamsSound
    /\ ThreadSound
    /\ \A c \in Callers : Stage(c)

-----------------------------------------------------------------------------
LEMMA MinIs ==
    ASSUME NEW S, S \subseteq Nat, S # {}
    PROVE  Min(S) \in S
  <1>1. PICK x \in S : \A y \in S : ~ (<<y, x>> \in OpToRel(<, Nat))
    BY NatLessThanWellFounded, WFMin, Zenon
  <1>2. \A y \in S : ~ (y < x)
    BY <1>1, Zenon DEF OpToRel
  <1>3. \A y \in S : x <= y
    BY <1>2
  <1> QED
    BY <1>1, <1>3, Zenon DEF Min

LEMMA HeldIs ==
    ASSUME NEW s
    PROVE  /\ HeldOf(s)["read"] = s.readFd /\ HeldOf(s)["write"] = s.writeFd
           /\ HeldOf(s)["savedOut"] = s.saved["stdout"]
           /\ HeldOf(s)["savedErr"] = s.saved["stderr"]
           /\ HeldOf(s)["redirectOut"] = s.deferred[<<"stdout", "redirect">>]
           /\ HeldOf(s)["redirectErr"] = s.deferred[<<"stderr", "redirect">>]
           /\ HeldOf(s)["restoreOut"] = s.deferred[<<"stdout", "restore">>]
           /\ HeldOf(s)["restoreErr"] = s.deferred[<<"stderr", "restore">>]
           /\ HeldOf(s) = [h \in Handles |-> HeldOf(s)[h]]
  BY ZenonT(60) DEF HeldOf, Handles

(* The same handles hold the same. *)
LEMMA HeldSame ==
    ASSUME NEW s, NEW t, s.readFd = t.readFd, s.writeFd = t.writeFd,
           s.saved = t.saved, s.deferred = t.deferred
    PROVE  HeldOf(s) = HeldOf(t)
  BY DEF HeldOf

LEMMA Objected ==
    ASSUME NEW b, NEW a
    PROVE  /\ \A h \in Handles : Closed \notin Allowed(h, b)
           /\ WriteEnd(b) # Closed /\ ReadEnd(b) # Closed
           /\ \A s \in Streams : Original(s) # Closed /\ Original(s) # WriteEnd(b)
           /\ ReadEnd(a) # WriteEnd(b)
           /\ WriteEnd(a) = WriteEnd(b) => a = b
           /\ ReadEnd(a).of = a /\ WriteEnd(a).of = a
  <1>1. /\ Closed.end = "closed" /\ WriteEnd(b).end = "write" /\ ReadEnd(b).end = "read"
        /\ ReadEnd(a).end = "read"
        /\ WriteEnd(b).of = b /\ ReadEnd(a).of = a /\ WriteEnd(a).of = a
        /\ \A s \in Streams : Original(s).end = s
    BY Zenon DEF Closed, WriteEnd, ReadEnd, Original
  <1>2. /\ WriteEnd(b) # Closed /\ ReadEnd(b) # Closed
        /\ \A s \in Streams : Original(s) # Closed /\ Original(s) # WriteEnd(b)
        /\ ReadEnd(a) # WriteEnd(b)
        /\ WriteEnd(a) = WriteEnd(b) => a = b
    BY <1>1, Zenon DEF Streams
  <1>3. \A h \in Handles : Closed \notin Allowed(h, b)
    BY <1>2, Zenon DEF Allowed, Handles, Streams
  <1> QED
    BY <1>1, <1>2, <1>3, Zenon

-----------------------------------------------------------------------------
(* The table under the changes the steps make to it. *)

(* Only descriptors 1 and 2 change. *)
LEMMA TableKept ==
    ASSUME NEW m, NEW n, NEW held, NEW b, Table(m, held, b),
           \A f \in 3 .. MaxFd : n[f] = m[f]
    PROVE  Table(n, held, b)
  BY Zenon DEF Table

(* A free descriptor is opened and held as h. *)
LEMMA TableFill ==
    ASSUME NEW m, NEW n, NEW held, NEW b, Table(m, held, b), NEW h \in Handles,
           held[h] = None, NEW f \in 3 .. MaxFd, m[f] = Closed, n[f] \in Allowed(h, b),
           \A g \in 3 .. MaxFd \ {f} : n[g] = m[g]
    PROVE  Table(n, Put(held, h, f), b)
  <1> DEFINE new == Put(held, h, f)
  <1>1. /\ held \in [Handles -> {None} \cup 3 .. MaxFd]
        /\ new \in [Handles -> {None} \cup 3 .. MaxFd]
        /\ new[h] = f /\ \A g \in Handles \ {h} : new[g] = held[g]
    BY Zenon DEF Table, Put
  <1>2. \A g \in Handles : held[g] # f
    BY Objected DEF Table, None
  <1>3. f # None
    BY DEF None
  <1> HIDE DEF new
  <1>4. \A g, k \in Handles : g # k /\ new[g] # None => new[g] # new[k]
    BY <1>1, <1>2 DEF Table
  <1>5. \A g \in 3 .. MaxFd : n[g] # Closed => \E k \in Handles : new[k] = g
    <2> SUFFICES ASSUME NEW g \in 3 .. MaxFd, n[g] # Closed
                 PROVE  \E k \in Handles : new[k] = g
      BY Zenon
    <2>1. CASE g = f
      BY <1>1, <2>1, Zenon
    <2>2. CASE g # f
      <3>1. PICK k \in Handles : held[k] = g
        BY <2>2, Zenon DEF Table
      <3>2. k # h
        BY <3>1 DEF None
      <3> QED
        BY <1>1, <3>1, <3>2, Zenon
    <2> QED
      BY <2>1, <2>2, Zenon
  <1>6. \A g \in Handles : new[g] # None => n[new[g]] \in Allowed(g, b)
    <2> SUFFICES ASSUME NEW g \in Handles, new[g] # None
                 PROVE  n[new[g]] \in Allowed(g, b)
      BY Zenon
    <2>1. CASE g = h
      BY <1>1, <2>1, Zenon
    <2>2. CASE g # h
      <3>1. new[g] = held[g] /\ held[g] \in 3 .. MaxFd /\ held[g] # f
        BY <1>1, <1>2, <2>2, Zenon
      <3> QED
        BY <3>1, Zenon DEF Table
    <2> QED
      BY <2>1, <2>2, Zenon
  <1> QED
    BY <1>1, <1>4, <1>5, <1>6, Zenon DEF Table, new

(* What the handles of a set hold is closed and forgotten. *)
LEMMA TableDrop ==
    ASSUME NEW m, NEW n, NEW held, NEW b, Table(m, held, b),
           NEW gone \in SUBSET Handles,
           \A f \in 3 .. MaxFd : n[f] = IF \E h \in gone : held[h] = f THEN Closed ELSE m[f]
    PROVE  Table(n, Drop(held, gone), b)
  <1> DEFINE new == Drop(held, gone)
  <1>1. /\ held \in [Handles -> {None} \cup 3 .. MaxFd]
        /\ new \in [Handles -> {None} \cup 3 .. MaxFd]
        /\ \A h \in Handles : new[h] = IF h \in gone THEN None ELSE held[h]
    BY Zenon DEF Table, Drop
  <1> HIDE DEF new
  <1>2. \A g, k \in Handles : g # k /\ new[g] # None => new[g] # new[k]
    BY <1>1, Zenon DEF Table
  <1>3. \A f \in 3 .. MaxFd : n[f] # Closed => \E k \in Handles : new[k] = f
    <2> SUFFICES ASSUME NEW f \in 3 .. MaxFd, n[f] # Closed
                 PROVE  \E k \in Handles : new[k] = f
      BY Zenon
    <2>1. n[f] = m[f] /\ ~ \E h \in gone : held[h] = f
      BY Zenon
    <2>2. PICK k \in Handles : held[k] = f
      BY <2>1, Zenon DEF Table
    <2> QED
      BY <1>1, <2>1, <2>2, Zenon
  <1>4. \A g \in Handles : new[g] # None => n[new[g]] \in Allowed(g, b)
    <2> SUFFICES ASSUME NEW g \in Handles, new[g] # None
                 PROVE  n[new[g]] \in Allowed(g, b)
      BY Zenon
    <2>1. g \notin gone /\ new[g] = held[g] /\ held[g] \in 3 .. MaxFd /\ held[g] # None
      BY <1>1, Zenon
    <2>2. \A h \in gone : held[h] # held[g]
      BY <2>1, Zenon DEF Table
    <2>3. n[held[g]] = m[held[g]]
      BY <2>1, <2>2, Zenon
    <2> QED
      BY <2>1, <2>3, Zenon DEF Table
  <1> QED
    BY <1>1, <1>2, <1>3, <1>4, Zenon DEF Table, new

(* What is held as h gets another content and is held as k from now on. *)
LEMMA TablePass ==
    ASSUME NEW m, NEW n, NEW held, NEW b, Table(m, held, b),
           NEW h \in Handles, NEW k \in Handles, h # k, held[h] # None, held[k] = None,
           n[held[h]] \in Allowed(k, b),
           \A f \in 3 .. MaxFd : f # held[h] => n[f] = m[f]
    PROVE  Table(n, Pass(held, h, k), b)
  <1> DEFINE new == Pass(held, h, k)
  <1>1. /\ held \in [Handles -> {None} \cup 3 .. MaxFd]
        /\ new \in [Handles -> {None} \cup 3 .. MaxFd]
        /\ new[h] = None /\ new[k] = held[h]
        /\ \A g \in Handles \ {h, k} : new[g] = held[g]
    BY Zenon DEF Table, Pass
  <1> HIDE DEF new
  <1>2. \A g, i \in Handles : g # i /\ new[g] # None => new[g] # new[i]
    BY <1>1 DEF Table
  <1>3. \A f \in 3 .. MaxFd : n[f] # Closed => \E i \in Handles : new[i] = f
    <2> SUFFICES ASSUME NEW f \in 3 .. MaxFd, n[f] # Closed
                 PROVE  \E i \in Handles : new[i] = f
      BY Zenon
    <2>1. CASE f = held[h]
      BY <1>1, <2>1, Zenon
    <2>2. CASE f # held[h]
      <3>1. PICK i \in Handles : held[i] = f
        BY <2>2, Zenon DEF Table
      <3>2. i # h /\ i # k
        BY <2>2, <3>1 DEF None
      <3> QED
        BY <1>1, <3>1, <3>2, Zenon
    <2> QED
      BY <2>1, <2>2, Zenon
  <1>4. \A g \in Handles : new[g] # None => n[new[g]] \in Allowed(g, b)
    <2> SUFFICES ASSUME NEW g \in Handles, new[g] # None
                 PROVE  n[new[g]] \in Allowed(g, b)
      BY Zenon
    <2>1. CASE g = k
      BY <1>1, <2>1, Zenon
    <2>2. CASE g # k
      <3>1. g # h /\ new[g] = held[g] /\ held[g] \in 3 .. MaxFd /\ held[g] # held[h]
            /\ held[g] # None
        BY <1>1, <2>2, Zenon DEF Table
      <3> QED
        BY <3>1, Zenon DEF Table
    <2> QED
      BY <2>1, <2>2, Zenon
  <1> QED
    BY <1>1, <1>2, <1>3, <1>4, Zenon DEF Table, new

-----------------------------------------------------------------------------
LEMMA Bound ==
    ASSUME NEW S, IsFiniteSet(S), NEW T, NEW x, T = S \cup {x}
    PROVE  /\ IsFiniteSet(T) /\ Cardinality(S) \in Nat
           /\ Cardinality(T) <= Cardinality(S) + 1
  <1>1. /\ IsFiniteSet(T)
        /\ Cardinality(T) = IF x \in S THEN Cardinality(S) ELSE Cardinality(S) + 1
    BY FS_AddElement, Zenon
  <1>2. Cardinality(S) \in Nat
    BY FS_CardinalityType, Zenon
  <1> QED
    BY <1>1, <1>2

(* The table has room for another descriptor besides a given one. *)
LEMMA Room ==
    ASSUME StdioConstants, NEW m, NEW held, NEW b, Table(m, held, b), NEW x
    PROVE  \E f \in 3 .. MaxFd : m[f] = Closed /\ f # x
  <1> DEFINE S1 == {} \cup {x}
             S2 == S1 \cup {held["read"]}
             S3 == S2 \cup {held["write"]}
             S4 == S3 \cup {held["savedOut"]}
             S5 == S4 \cup {held["savedErr"]}
             S6 == S5 \cup {held["redirectOut"]}
             S7 == S6 \cup {held["redirectErr"]}
             S8 == S7 \cup {held["restoreOut"]}
             S9 == S8 \cup {held["restoreErr"]}
  <1> SUFFICES ASSUME \A f \in 3 .. MaxFd : m[f] # Closed \/ f = x
               PROVE  FALSE
    BY Zenon
  <1>1. \A f \in 3 .. MaxFd : f \in S9
    BY Zenon DEF Table, Handles
  <1>2. IsFiniteSet({}) /\ Cardinality({}) = 0
    BY FS_EmptySet, Zenon
  <1>3. IsFiniteSet(S9) /\ Cardinality(S9) <= 9
    <2>1. /\ S1 = {} \cup {x}
          /\ S2 = S1 \cup {held["read"]}
          /\ S3 = S2 \cup {held["write"]}
          /\ S4 = S3 \cup {held["savedOut"]}
          /\ S5 = S4 \cup {held["savedErr"]}
          /\ S6 = S5 \cup {held["redirectOut"]}
          /\ S7 = S6 \cup {held["redirectErr"]}
          /\ S8 = S7 \cup {held["restoreOut"]}
          /\ S9 = S8 \cup {held["restoreErr"]}
      BY Zenon
    <2> HIDE DEF S1, S2, S3, S4, S5, S6, S7, S8, S9
    <2>2. IsFiniteSet(S1) /\ Cardinality(S1) <= 1
      <3>1. S1 = {} \cup {x}
        BY <2>1, Zenon
      <3>2. IsFiniteSet(S1) /\ Cardinality(S1) <= Cardinality({}) + 1
        BY <1>2, <3>1, Bound, Zenon
      <3> QED
        BY <1>2, <3>2
    <2>3. IsFiniteSet(S2) /\ Cardinality(S2) <= Cardinality(S1) + 1 /\ Cardinality(S1) \in Nat
      <3>1. S2 = S1 \cup {held["read"]}
        BY <2>1, Zenon
      <3> QED
        BY <2>2, <3>1, Bound, Zenon
    <2>4. IsFiniteSet(S3) /\ Cardinality(S3) <= Cardinality(S2) + 1 /\ Cardinality(S2) \in Nat
      <3>1. S3 = S2 \cup {held["write"]}
        BY <2>1, Zenon
      <3> QED
        BY <2>3, <3>1, Bound, Zenon
    <2>5. IsFiniteSet(S4) /\ Cardinality(S4) <= Cardinality(S3) + 1 /\ Cardinality(S3) \in Nat
      <3>1. S4 = S3 \cup {held["savedOut"]}
        BY <2>1, Zenon
      <3> QED
        BY <2>4, <3>1, Bound, Zenon
    <2>6. IsFiniteSet(S5) /\ Cardinality(S5) <= Cardinality(S4) + 1 /\ Cardinality(S4) \in Nat
      <3>1. S5 = S4 \cup {held["savedErr"]}
        BY <2>1, Zenon
      <3> QED
        BY <2>5, <3>1, Bound, Zenon
    <2>7. IsFiniteSet(S6) /\ Cardinality(S6) <= Cardinality(S5) + 1 /\ Cardinality(S5) \in Nat
      <3>1. S6 = S5 \cup {held["redirectOut"]}
        BY <2>1, Zenon
      <3> QED
        BY <2>6, <3>1, Bound, Zenon
    <2>8. IsFiniteSet(S7) /\ Cardinality(S7) <= Cardinality(S6) + 1 /\ Cardinality(S6) \in Nat
      <3>1. S7 = S6 \cup {held["redirectErr"]}
        BY <2>1, Zenon
      <3> QED
        BY <2>7, <3>1, Bound, Zenon
    <2>9. IsFiniteSet(S8) /\ Cardinality(S8) <= Cardinality(S7) + 1 /\ Cardinality(S7) \in Nat
      <3>1. S8 = S7 \cup {held["restoreOut"]}
        BY <2>1, Zenon
      <3> QED
        BY <2>8, <3>1, Bound, Zenon
    <2>10. IsFiniteSet(S9) /\ Cardinality(S9) <= Cardinality(S8) + 1 /\ Cardinality(S8) \in Nat
      <3>1. S9 = S8 \cup {held["restoreErr"]}
        BY <2>1, Zenon
      <3> QED
        BY <2>9, <3>1, Bound, Zenon
    <2>11. Cardinality(S9) \in Nat
      BY <2>10, FS_CardinalityType, Zenon
    <2> QED
      BY <2>2, <2>3, <2>4, <2>5, <2>6, <2>7, <2>8, <2>9, <2>10, <2>11
  <1> HIDE DEF S9
  <1>4. Cardinality(3 .. MaxFd) >= 10
    BY FS_Interval DEF StdioConstants
  <1>5. Cardinality(3 .. MaxFd) <= Cardinality(S9)
    <2>1. 3 .. MaxFd \in SUBSET S9
      BY <1>1, Zenon
    <2> QED
      BY <1>3, <2>1, FS_Subset, Zenon
  <1>6. Cardinality(S9) \in Nat /\ Cardinality(3 .. MaxFd) \in Nat
    <2>1. IsFiniteSet(3 .. MaxFd)
      BY FS_Interval DEF StdioConstants
    <2> QED
      BY <1>3, <2>1, FS_CardinalityType, Zenon
  <1> QED
    BY <1>3, <1>4, <1>5, <1>6

LEMMA Parts ==
    ASSUME Inv
    PROVE  /\ fdmap \in [Fds -> Objects] /\ st \in StType
           /\ bridges \in 0 .. MaxBridges /\ shut \subseteq 1 .. bridges
           /\ pc \in [Callers -> Pcs] /\ op \in [Callers -> {"redirect", "restore"}]
           /\ result \in [Callers -> {"ok", "error"}]
           /\ reader \in [Bridges -> {"none", "starting", "reading", "exited"}]
           /\ Table(fdmap, Held, bridges) /\ StreamsSound /\ ThreadSound
           /\ \A c \in Callers : Stage(c)
  BY Zenon DEF Inv, Types

LEMMA StParts ==
    ASSUME NEW s \in StType
    PROVE  /\ s.active \in BOOLEAN /\ s.started \in BOOLEAN /\ s.ready \in BOOLEAN
           /\ s.wakeProven \in BOOLEAN /\ s.thread \in 0 .. MaxBridges
           /\ s.redirected \in [Streams -> BOOLEAN] /\ s.saved \in [Streams -> Nat]
           /\ s.deferred \in [Slots -> Nat] /\ s.readFd \in Nat /\ s.writeFd \in Nat
  BY Zenon DEF StType

LEMMA HeldOk ==
    ASSUME Inv, NEW h \in Handles
    PROVE  /\ Held[h] \in {None} \cup 3 .. MaxFd
           /\ Held[h] # None => Held[h] \in 3 .. MaxFd /\ fdmap[Held[h]] \in Allowed(h, bridges)
  BY Parts, Zenon DEF Table

(* Descriptors 1 and 2 are the streams'. *)
LEMMA FdIs ==
    ASSUME StdioConstants, Inv, NEW s \in Streams
    PROVE  Fd(s) \in {1, 2} /\ Fd(s) \in Fds /\ Fd(s) \notin 3 .. MaxFd /\ fdmap[Fd(s)] # Closed
  <1>1. Fd(s) \in {1, 2}
    BY Zenon DEF Fd
  <1>2. fdmap[Fd(s)] = WriteEnd(bridges) \/ fdmap[Fd(s)] = Original(s)
    BY Parts, StParts, Zenon DEF StreamsSound
  <1>3. fdmap[Fd(s)] # Closed
    BY <1>2, Objected, Zenon
  <1> QED
    BY <1>1, <1>3 DEF Fds, StdioConstants

(* A new descriptor: none that is open, and none of 1 and 2. *)
LEMMA NewFdIs ==
    ASSUME StdioConstants, Inv, NEW x
    PROVE  /\ NewFd \in 3 .. MaxFd /\ NewFd \in Fds /\ fdmap[NewFd] = Closed
           /\ \A h \in Handles : Held[h] # NewFd
           /\ Min(FreeFds \ {x}) \in FreeFds \ {x}
           /\ Min(FreeFds \ {x}) \in 3 .. MaxFd
  <1>1. \A y : \E f \in 3 .. MaxFd : fdmap[f] = Closed /\ f # y
    BY Parts, Room, Zenon
  <1>2. 3 .. MaxFd \subseteq Fds /\ Fds \subseteq Nat
    BY DEF Fds, StdioConstants
  <1>3. FreeFds # {} /\ FreeFds \ {x} # {}
    BY <1>1, <1>2 DEF FreeFds
  <1>4. NewFd \in FreeFds /\ Min(FreeFds \ {x}) \in FreeFds \ {x}
    BY <1>2, <1>3, MinIs, Zenon DEF NewFd, FreeFds
  <1>5. fdmap[1] # Closed /\ fdmap[2] # Closed
    <2>1. fdmap[Fd("stdout")] # Closed /\ fdmap[Fd("stderr")] # Closed
      BY FdIs, Zenon DEF Streams
    <2>2. Fd("stdout") = 1 /\ Fd("stderr") = 2
      BY Zenon DEF Fd
    <2> QED
      BY <2>1, <2>2, Zenon
  <1>6. \A f \in FreeFds : f \in 3 .. MaxFd /\ f \in Fds /\ fdmap[f] = Closed
    BY <1>5 DEF FreeFds, Fds, StdioConstants
  <1>7. \A h \in Handles : Held[h] # NewFd
    <2> SUFFICES ASSUME NEW h \in Handles, Held[h] = NewFd
                 PROVE  FALSE
      BY Zenon
    <2>1. Held[h] # None /\ fdmap[Held[h]] = Closed
      BY <1>4, <1>6 DEF None
    <2> QED
      BY <2>1, HeldOk, Objected, Zenon
  <1> QED
    BY <1>4, <1>6, <1>7, Zenon

(* A step of the one caller. *)
LEMMA Assemble ==
    ASSUME StdioConstants, NEW c \in Callers, Types', Table(fdmap', Held', bridges'),
           StreamsSound', ThreadSound', Stage(c)'
    PROVE  Inv'
  BY Zenon DEF Inv, StdioConstants

LEMMA GotoIs ==
    ASSUME Inv, NEW c \in Callers, NEW p \in Pcs, Goto(c, p)
    PROVE  pc' \in [Callers -> Pcs] /\ pc'[c] = p
  BY Parts, Zenon DEF Goto

(* A step that changes neither the table nor what is held. *)
LEMMA TableSame ==
    ASSUME Inv, fdmap' = fdmap, Held' = Held, bridges' = bridges
    PROVE  Table(fdmap', Held', bridges')
  BY Parts, Zenon

LEMMA PutIs ==
    ASSUME NEW held, held \in [Handles -> {None} \cup 3 .. MaxFd], NEW h \in Handles, NEW f
    PROVE  /\ Put(held, h, f)[h] = f
           /\ \A g \in Handles \ {h} : Put(held, h, f)[g] = held[g]
  BY Zenon DEF Put

LEMMA HeldType ==
    ASSUME Inv
    PROVE  Held \in [Handles -> {None} \cup 3 .. MaxFd]
  BY Parts, Zenon DEF Table

(* The handles after an assignment to a field of stdio_state. *)
LEMMA HeldSaved ==
    ASSUME NEW t, NEW u, NEW s \in Streams, NEW f,
           u.saved[s] = f, \A r \in Streams \ {s} : u.saved[r] = t.saved[r],
           u.readFd = t.readFd, u.writeFd = t.writeFd, u.deferred = t.deferred
    PROVE  HeldOf(u) = Put(HeldOf(t), Saved(s), f)
  <1>1. u.saved[s] = f /\ \A r \in Streams \ {s} : u.saved[r] = t.saved[r]
    BY Zenon
  <1>2. \A h \in Handles : HeldOf(u)[h] = IF h = Saved(s) THEN f ELSE HeldOf(t)[h]
    <2>1. CASE s = "stdout"
      BY <1>1, <2>1, Zenon DEF HeldOf, Handles, Saved, Streams
    <2>2. CASE s = "stderr"
      BY <1>1, <2>2, Zenon DEF HeldOf, Handles, Saved, Streams
    <2> QED
      BY <2>1, <2>2, Zenon DEF Streams
  <1> QED
    BY <1>2, HeldIs, Zenon DEF Put

LEMMA HeldRedirect ==
    ASSUME NEW t, NEW u, NEW s \in Streams, NEW f, t.deferred \in [Slots -> Nat],
           u.deferred = [t.deferred EXCEPT ![<<s, "redirect">>] = f],
           u.readFd = t.readFd, u.writeFd = t.writeFd, u.saved = t.saved
    PROVE  HeldOf(u) = Put(HeldOf(t), ToRedirect(s), f)
  <1>1. /\ <<s, "redirect">> \in Slots
        /\ \A r \in Streams, k \in {"redirect", "restore"} : <<r, k>> \in Slots
    BY Zenon DEF Slots
  <1>2. /\ u.deferred[<<s, "redirect">>] = f
        /\ \A d \in Slots \ {<<s, "redirect">>} : u.deferred[d] = t.deferred[d]
    BY <1>1, Zenon
  <1>3. \A h \in Handles : HeldOf(u)[h] = IF h = ToRedirect(s) THEN f ELSE HeldOf(t)[h]
    <2>1. CASE s = "stdout"
      BY <1>1, <1>2, <2>1, Zenon DEF HeldOf, Handles, ToRedirect, Streams
    <2>2. CASE s = "stderr"
      BY <1>1, <1>2, <2>2, Zenon DEF HeldOf, Handles, ToRedirect, Streams
    <2> QED
      BY <2>1, <2>2, Zenon DEF Streams
  <1> QED
    BY <1>3, HeldIs DEF Put

LEMMA HeldRestore ==
    ASSUME NEW t, NEW u, NEW s \in Streams, t.deferred \in [Slots -> Nat],
           t.saved \in [Streams -> Nat],
           u.deferred = [t.deferred EXCEPT ![<<s, "restore">>] = t.saved[s]],
           u.saved = [t.saved EXCEPT ![s] = None],
           u.readFd = t.readFd, u.writeFd = t.writeFd
    PROVE  HeldOf(u) = Pass(HeldOf(t), Saved(s), ToRestore(s))
  <1>1. /\ <<s, "restore">> \in Slots
        /\ \A r \in Streams, k \in {"redirect", "restore"} : <<r, k>> \in Slots
    BY Zenon DEF Slots
  <1>2. /\ u.deferred[<<s, "restore">>] = t.saved[s]
        /\ \A d \in Slots \ {<<s, "restore">>} : u.deferred[d] = t.deferred[d]
        /\ u.saved[s] = None /\ \A r \in Streams \ {s} : u.saved[r] = t.saved[r]
    BY <1>1, Zenon
  <1>3. \A h \in Handles : HeldOf(u)[h] = IF h = ToRestore(s) THEN t.saved[s]
                                          ELSE IF h = Saved(s) THEN None ELSE HeldOf(t)[h]
    <2>1. CASE s = "stdout"
      BY <1>1, <1>2, <2>1, ZenonT(60) DEF HeldOf, Handles, Saved, ToRestore, Streams
    <2>2. CASE s = "stderr"
      BY <1>1, <1>2, <2>2, ZenonT(60) DEF HeldOf, Handles, Saved, ToRestore, Streams
    <2> QED
      BY <2>1, <2>2, Zenon DEF Streams
  <1>4. Saved(s) # ToRestore(s) /\ Saved(s) \in Handles /\ ToRestore(s) \in Handles
    BY Zenon DEF Saved, ToRestore, Handles
  <1> QED
    <2>1. HeldOf(t)[Saved(s)] = t.saved[s]
      BY HeldIs, Zenon DEF Saved, Streams
    <2> QED
      BY <1>3, <1>4, <2>1, HeldIs DEF Pass

LEMMA HandleNames ==
    ASSUME NEW s \in Streams
    PROVE  /\ Saved(s) \in Handles /\ ToRedirect(s) \in Handles /\ ToRestore(s) \in Handles
           /\ Saved(s) # ToRestore(s)
           /\ Held[Saved(s)] = st.saved[s]
           /\ Held[ToRedirect(s)] = st.deferred[<<s, "redirect">>]
           /\ Held[ToRestore(s)] = st.deferred[<<s, "restore">>]
           /\ \A b : /\ Allowed(Saved(s), b) = {Original(s)}
                     /\ Allowed(ToRedirect(s), b) = {Original(s), WriteEnd(b)}
                     /\ Allowed(ToRestore(s), b) = {WriteEnd(b)}
  BY HeldIs, Zenon DEF Saved, ToRedirect, ToRestore, Handles, Held, Streams, Allowed

LEMMA EndNames ==
    /\ "read" \in Handles /\ "write" \in Handles
    /\ Held["read"] = st.readFd /\ Held["write"] = st.writeFd
    /\ \A b : Allowed("read", b) = {ReadEnd(b)} /\ Allowed("write", b) = {WriteEnd(b)}
  BY HeldIs, Zenon DEF Handles, Held, Allowed

(* A step that only moves the caller. *)
LEMMA CallerMoves ==
    ASSUME StdioConstants, Inv, NEW c \in Callers,
           UNCHANGED <<fdmap, st, reader, shut, bridges>>,
           pc' \in [Callers -> Pcs], op' \in [Callers -> {"redirect", "restore"}],
           result' \in [Callers -> {"ok", "error"}], Stage(c)'
    PROVE  Inv'
  <1>1. Held' = Held
    BY Zenon DEF Held
  <1>2. Table(fdmap', Held', bridges')
    BY <1>1, TableSame, Zenon
  <1>3. Types'
    BY Parts, Zenon DEF Types
  <1>4. StreamsSound'
    BY <1>1, Parts, Zenon DEF StreamsSound
  <1>5. ThreadSound'
    BY Parts, Zenon DEF ThreadSound, Eof
  <1> QED
    BY <1>2, <1>3, <1>4, <1>5, Assemble, Zenon

LEMMA RedirectCallStep ==
    ASSUME StdioConstants, Inv, NEW c \in Callers, RedirectCall(c)
    PROVE  Inv'
  <1>1. /\ pc[c] = "idle" /\ mutex = NoCaller /\ Stage(c)
        /\ UNCHANGED <<fdmap, st, reader, shut, bridges>>
        /\ op' \in [Callers -> {"redirect", "restore"}] /\ op'[c] = "redirect"
        /\ Held' = Held
    BY Parts, Zenon DEF RedirectCall, BridgeKept, Held
  <1>2. CASE st.active
    <2>1. /\ pc' = pc /\ mutex' = mutex
          /\ result' \in [Callers -> {"ok", "error"}] /\ pc' \in [Callers -> Pcs]
      BY <1>2, Parts, Zenon DEF RedirectCall
    <2>2. Stage(c)'
      BY <1>1, <1>2, <2>1, Zenon DEF Stage
    <2> QED
      BY <1>1, <2>1, <2>2, CallerMoves, Zenon
  <1>3. CASE ~st.active
    <2>1. /\ mutex' = c /\ result' = result /\ Goto(c, "saveOut")
      BY <1>3, Zenon DEF RedirectCall
    <2>2. pc' \in [Callers -> Pcs] /\ pc'[c] = "saveOut"
      BY <2>1, GotoIs, Zenon DEF Pcs
    <2>3. Untouched /\ NoneHeld(Handles)
      BY <1>1, <1>3, Zenon DEF Stage
    <2>4. Untouched' /\ NoneHeld(Handles)'
      BY <1>1, <2>3, Zenon DEF Untouched, NoneHeld, SomeRedirected
    <2>5. Stage(c)'
      BY <1>1, <1>3, <2>1, <2>2, <2>4, Zenon DEF Stage
    <2> QED
      BY <1>1, <2>1, <2>2, <2>5, Parts, CallerMoves, Zenon
  <1> QED
    BY <1>2, <1>3, Zenon

(* The streams are left alone. *)
LEMMA StreamsKept ==
    ASSUME Inv, \A s \in Streams : fdmap'[Fd(s)] = fdmap[Fd(s)],
           st'.redirected = st.redirected, bridges' = bridges, shut' = shut,
           \A s \in Streams : st.redirected[s] => Held'[Saved(s)] # None
    PROVE  StreamsSound'
  BY Parts, Zenon DEF StreamsSound

LEMMA StreamsIdle ==
    ASSUME Inv, ~SomeRedirected, \A s \in Streams : fdmap'[Fd(s)] = fdmap[Fd(s)],
           st'.redirected = st.redirected
    PROVE  StreamsSound' /\ ~SomeRedirected'
  BY Parts, Zenon DEF StreamsSound, SomeRedirected

(* The capture thread is left alone. *)
LEMMA ThreadKept ==
    ASSUME Inv, st'.started = st.started, st'.thread = st.thread,
           reader' = reader, bridges' = bridges,
           st.started /\ st'.wakeProven => Eof(bridges)'
    PROVE  ThreadSound'
  BY Parts, Zenon DEF ThreadSound

LEMMA ThreadNone ==
    ASSUME Inv, ~st.started, ~st'.started, reader' = reader
    PROVE  ThreadSound'
  BY Parts, Zenon DEF ThreadSound

LEMMA TypesAre ==
    ASSUME Inv, fdmap' \in [Fds -> Objects], st' \in StType, pc' \in [Callers -> Pcs],
           op' = op, result' \in [Callers -> {"ok", "error"}],
           reader' \in [Bridges -> {"none", "starting", "reading", "exited"}],
           shut' \subseteq 1 .. bridges', bridges' \in 0 .. MaxBridges
    PROVE  Types'
  BY Parts, Zenon DEF Types

LEMMA ObjectsAre ==
    ASSUME NEW b \in Bridges
    PROVE  ReadEnd(b) \in Objects /\ WriteEnd(b) \in Objects /\ Closed \in Objects
           /\ \A s \in Streams : Original(s) \in Objects
  BY Zenon DEF Objects

(* An early failure: nothing was redirected. *)
LEMMA ToUndo ==
    ASSUME Inv, NEW c \in Callers, pc'[c] = "undoOut", mutex' = c, op'[c] = "redirect",
           ~st'.active
    PROVE  Stage(c)'
  BY Zenon DEF Stage

LEMMA NewFdOk ==
    ASSUME StdioConstants, Inv
    PROVE  /\ NewFd \in 3 .. MaxFd /\ NewFd \in Fds /\ fdmap[NewFd] = Closed
           /\ NewFd \in Nat /\ NewFd # None
           /\ \A s \in Streams : Fd(s) # NewFd
  <1>1. NewFd \in 3 .. MaxFd /\ NewFd \in Fds /\ fdmap[NewFd] = Closed
    BY NewFdIs, Zenon
  <1>2. NewFd \in Nat /\ NewFd # None
    BY <1>1 DEF None, StdioConstants
  <1> QED
    BY <1>1, <1>2, FdIs, Zenon

LEMMA SaveStep ==
    ASSUME StdioConstants, Inv, NEW c \in Callers, NEW at, NEW s \in Streams, NEW next \in Pcs,
           \/ at = "saveOut" /\ s = "stdout" /\ next = "saveErr"
           \/ at = "saveErr" /\ s = "stderr" /\ next = "bridge",
           Save(c, at, s, next)
    PROVE  Inv'
  <1>1. /\ pc[c] = at /\ mutex = c /\ mutex' = c /\ op' = op /\ result' = result
        /\ reader' = reader /\ shut' = shut /\ bridges' = bridges /\ Stage(c)
        /\ st \in StType /\ Held' = HeldOf(st') /\ Held = HeldOf(st)
        /\ Table(fdmap, Held, bridges)
    BY Parts, Zenon DEF Save, Holds, BridgeKept, Held
  <1>2. Untouched /\ op[c] = "redirect" /\ Held[Saved(s)] = None
    BY <1>1, Zenon DEF Stage, NoneHeld, Handles, Saved
  <1>3. /\ ~st.active /\ ~st.started /\ ~SomeRedirected /\ st.saved[s] = None
        /\ fdmap[Fd(s)] = Original(s)
    BY <1>2, Parts, HandleNames, Zenon DEF Untouched, StreamsSound, SomeRedirected
  <1>4. CASE /\ fdmap' = [fdmap EXCEPT ![NewFd] = fdmap[Fd(s)]]
             /\ st' = [st EXCEPT !.saved[s] = NewFd]
             /\ Goto(c, next)
    <2>1. /\ NewFd \in 3 .. MaxFd /\ NewFd \in Fds /\ fdmap[NewFd] = Closed /\ NewFd \in Nat
          /\ NewFd # None
      BY NewFdOk, Zenon
    <2>2. /\ st' \in StType /\ st'.saved = [st.saved EXCEPT ![s] = NewFd]
          /\ st'.readFd = st.readFd /\ st'.writeFd = st.writeFd /\ st'.deferred = st.deferred
          /\ st'.active = st.active /\ st'.started = st.started
          /\ st'.redirected = st.redirected
      BY <1>1, <1>4, <2>1, Zenon DEF StType
    <2>3. st.saved \in [Streams -> Nat]
      BY <1>1, StParts, Zenon
    <2>4. Held' = Put(Held, Saved(s), NewFd)
      <3>1. st'.saved[s] = NewFd /\ \A r \in Streams \ {s} : st'.saved[r] = st.saved[r]
        BY <2>2, <2>3, Zenon
      <3>2. /\ Held' = HeldOf(st') /\ Held = HeldOf(st) /\ st'.readFd = st.readFd
            /\ st'.writeFd = st.writeFd /\ st'.deferred = st.deferred
        BY <1>1, <2>2, Zenon
      <3> QED
        BY <3>1, <3>2, HeldSaved
    <2>5. /\ fdmap \in [Fds -> Objects] /\ fdmap' \in [Fds -> Objects]
          /\ fdmap'[NewFd] = Original(s)
          /\ \A f \in Fds \ {NewFd} : fdmap'[f] = fdmap[f]
      BY <1>3, <1>4, <2>1, Parts, FdIs, Zenon
    <2>6. Table(fdmap', Held', bridges')
      <3>1. \A g \in 3 .. MaxFd \ {NewFd} : fdmap'[g] = fdmap[g]
        BY <2>5 DEF Fds, StdioConstants
      <3>2. Original(s) \in Allowed(Saved(s), bridges) /\ Saved(s) \in Handles
        BY HandleNames, Zenon
      <3> QED
        BY <1>1, <1>2, <2>1, <2>4, <2>5, <3>1, <3>2, TableFill, Zenon
    <2>7. \A r \in Streams : fdmap'[Fd(r)] = fdmap[Fd(r)]
      BY <2>1, <2>5, FdIs, Zenon
    <2>8. StreamsSound' /\ ~SomeRedirected'
      BY <1>3, <2>2, <2>7, StreamsIdle, Zenon
    <2>9. ThreadSound'
      BY <1>1, <1>3, <2>2, ThreadNone, Zenon
    <2>10. Types'
      BY <1>1, <1>4, <2>2, <2>5, Parts, GotoIs, TypesAre, Zenon
    <2>11. Stage(c)'
      <3>1. pc'[c] = next
        BY <1>4, GotoIs, Zenon
      <3>2. Held'[Saved(s)] # None
        <4>1. Saved(s) \in Handles
          BY HandleNames, Zenon
        <4> QED
          BY <2>1, <2>4, <4>1, HeldType, PutIs
      <3>3. \A h \in Handles \ {Saved(s)} : Held'[h] = Held[h]
        <4>1. Saved(s) \in Handles
          BY HandleNames, Zenon
        <4> QED
          BY <2>4, <4>1, HeldType, PutIs
      <3>4. Untouched'
        BY <1>3, <2>2, <2>8, Zenon DEF Untouched
      <3>5. CASE at = "saveOut"
        <4>1. NoneHeld(Handles) /\ Saved(s) = "savedOut" /\ next = "saveErr"
          BY <1>1, <3>5, Zenon DEF Stage, Saved
        <4>2. NoneHeld(Handles \ {"savedOut"})' /\ Held'["savedOut"] # None
          BY <3>2, <3>3, <4>1, Zenon DEF NoneHeld
        <4> QED
          BY <1>1, <1>2, <1>3, <2>2, <3>1, <3>4, <4>1, <4>2, Zenon DEF Stage
      <3>6. CASE at = "saveErr"
        <4>1. /\ NoneHeld(Handles \ {"savedOut"}) /\ Saved(s) = "savedErr" /\ next = "bridge"
              /\ Held["savedOut"] # None
          BY <1>1, <3>6, Zenon DEF Stage, Saved
        <4>2. NoneHeld(Handles \ {"savedOut", "savedErr"})' /\ Held'["savedErr"] # None
          BY <3>2, <3>3, <4>1, Zenon DEF NoneHeld
        <4>3. Held'["savedOut"] # None
          BY <3>3, <4>1, Zenon DEF Handles
        <4> QED
          BY <1>1, <1>2, <1>3, <2>2, <3>1, <3>4, <4>1, <4>2, <4>3, Zenon DEF Stage
      <3> QED
        BY <3>5, <3>6, Zenon
    <2> QED
      BY <2>6, <2>8, <2>9, <2>10, <2>11, Assemble, Zenon
  <1>5. CASE /\ st' = [st EXCEPT !.saved[s] = None]
             /\ Goto(c, "undoOut") /\ fdmap' = fdmap
    <2>1. /\ st.saved \in [Streams -> Nat] /\ [st.saved EXCEPT ![s] = None] = st.saved
      BY <1>1, <1>3, StParts, Zenon
    <2>2. st' = st
      BY <1>1, <1>5, <2>1, Zenon DEF StType
    <2>3. pc' \in [Callers -> Pcs] /\ pc'[c] = "undoOut"
      BY <1>5, GotoIs, Zenon DEF Pcs
    <2>4. Stage(c)'
      BY <1>1, <1>2, <1>3, <2>2, <2>3, ToUndo, Zenon
    <2> QED
      BY <1>1, <1>5, <2>2, <2>3, <2>4, Parts, CallerMoves, Zenon
  <1> QED
    BY <1>4, <1>5, Zenon DEF Save

(* A socket pair is numbered when no descriptor of the last one is held. *)
LEMMA TableRenumber ==
    ASSUME NEW m, NEW held, NEW b, NEW d, Table(m, held, b),
           \A h \in Handles \ {"savedOut", "savedErr"} : held[h] = None
    PROVE  Table(m, held, d)
  <1>1. /\ Allowed("savedOut", b) = Allowed("savedOut", d)
        /\ Allowed("savedErr", b) = Allowed("savedErr", d)
    BY Zenon DEF Allowed
  <1>2. \A h \in Handles : held[h] # None => m[held[h]] \in Allowed(h, d)
    BY <1>1, Zenon DEF Table
  <1> QED
    BY <1>2, Zenon DEF Table

LEMMA HeldPair ==
    ASSUME NEW t, NEW u, NEW r, NEW w, u.readFd = r, u.writeFd = w,
           u.saved = t.saved, u.deferred = t.deferred
    PROVE  HeldOf(u) = Put(Put(HeldOf(t), "read", r), "write", w)
  BY Zenon DEF HeldOf, Handles, Put

LEMMA MakeBridgeStep ==
    ASSUME StdioConstants, Inv, NEW c \in Callers, MakeBridge(c)
    PROVE  Inv'
  <1> DEFINE b == bridges + 1
             read == NewFd
             write == Min(FreeFds \ {read})
  <1>1. /\ pc[c] = "bridge" /\ mutex = c /\ mutex' = c /\ op' = op /\ result' = result
        /\ reader' = reader /\ shut' = shut /\ Stage(c)
        /\ st \in StType /\ Held' = HeldOf(st') /\ Held = HeldOf(st)
        /\ Table(fdmap, Held, bridges)
    BY Parts, Zenon DEF MakeBridge, Holds, Held
  <1>2. /\ Untouched /\ op[c] = "redirect" /\ NoneHeld(Handles \ {"savedOut", "savedErr"})
        /\ Held["savedOut"] # None /\ Held["savedErr"] # None
    BY <1>1, Zenon DEF Stage
  <1>3. ~st.active /\ ~st.started /\ ~SomeRedirected
    BY <1>2, Zenon DEF Untouched
  <1>4. CASE /\ b \in Bridges /\ bridges' = b
             /\ fdmap' = [fdmap EXCEPT ![read] = ReadEnd(b), ![write] = WriteEnd(b)]
             /\ st' = [st EXCEPT !.readFd = read, !.writeFd = write, !.wakeProven = FALSE]
             /\ Goto(c, "thread") \/ Goto(c, "undoOut")
    <2>1. /\ read \in 3 .. MaxFd /\ read \in Fds /\ fdmap[read] = Closed
          /\ read \in Nat /\ read # None /\ \A s \in Streams : Fd(s) # read
      BY NewFdOk, Zenon
    <2>2. write \in FreeFds \ {read} /\ write \in 3 .. MaxFd
      BY NewFdIs, Zenon
    <2>3. /\ write \in Fds /\ fdmap[write] = Closed /\ write # read
          /\ write \in Nat /\ write # None
      BY <2>2 DEF FreeFds, Fds, None
    <2>4. \A s \in Streams : Fd(s) # write
      BY <2>2, FdIs, Zenon
    <2> HIDE DEF read, write
    <2>5. /\ st' \in StType /\ st'.readFd = read /\ st'.writeFd = write
          /\ st'.saved = st.saved /\ st'.deferred = st.deferred
          /\ st'.active = st.active /\ st'.started = st.started
          /\ st'.redirected = st.redirected /\ ~st'.wakeProven
      BY <1>1, <1>4, <2>1, <2>3, Zenon DEF StType
    <2>6. Held' = Put(Put(Held, "read", read), "write", write)
      BY <1>1, <2>5, HeldPair, SMTT(20)
    <2> DEFINE half == [fdmap EXCEPT ![read] = ReadEnd(b)]
    <2>7. fdmap \in [Fds -> Objects] /\ ReadEnd(b) \in Objects /\ WriteEnd(b) \in Objects
      BY <1>4, Parts, ObjectsAre, Zenon
    <2>8. /\ half \in [Fds -> Objects] /\ half[read] = ReadEnd(b) /\ half[write] = Closed
          /\ \A f \in Fds \ {read} : half[f] = fdmap[f]
      BY <2>1, <2>3, <2>7, Zenon
    <2>9. /\ fdmap' \in [Fds -> Objects] /\ fdmap'[write] = WriteEnd(b)
          /\ \A f \in Fds \ {write} : fdmap'[f] = half[f]
      BY <1>4, <2>1, <2>3, <2>7, Zenon
    <2>10. 3 .. MaxFd \subseteq Fds
      BY DEF Fds, StdioConstants
    <2> HIDE DEF half, b
    <2>11. "read" \in Handles /\ "write" \in Handles /\ Held["read"] = None /\ Held["write"] = None
      BY <1>2, Zenon DEF NoneHeld, Handles
    <2>12. Table(fdmap, Held, b)
      BY <1>1, <1>2, TableRenumber, Zenon DEF NoneHeld
    <2>13. Table(half, Put(Held, "read", read), b)
      <3>1. half[read] \in Allowed("read", b)
        BY <2>8, EndNames, Zenon
      <3>2. \A g \in 3 .. MaxFd \ {read} : half[g] = fdmap[g]
        BY <2>8, <2>10, Zenon
      <3> QED
        BY <2>1, <2>11, <2>12, <3>1, <3>2, TableFill, Zenon
    <2>14. /\ Put(Held, "read", read)["write"] = None
           /\ \A h \in Handles \ {"read"} : Put(Held, "read", read)[h] = Held[h]
      BY <2>11, HeldType, PutIs
    <2>15. Table(fdmap', Held', bridges')
      <3>1. fdmap'[write] \in Allowed("write", b)
        BY <2>9, EndNames, Zenon
      <3>2. \A g \in 3 .. MaxFd \ {write} : fdmap'[g] = half[g]
        BY <2>9, <2>10, Zenon
      <3>3. Table(fdmap', Put(Put(Held, "read", read), "write", write), b)
        BY <2>2, <2>8, <2>11, <2>13, <2>14, <3>1, <3>2, TableFill, Zenon
      <3> QED
        BY <1>4, <2>6, <3>3, Zenon
    <2>16. \A s \in Streams : fdmap'[Fd(s)] = fdmap[Fd(s)]
      BY <2>1, <2>4, <2>8, <2>9, FdIs, Zenon
    <2>17. StreamsSound' /\ ~SomeRedirected'
      BY <1>3, <2>5, <2>16, StreamsIdle, Zenon
    <2>18. ThreadSound'
      BY <1>1, <1>3, <2>5, ThreadNone, Zenon
    <2>19. /\ bridges' \in 0 .. MaxBridges /\ shut' \subseteq 1 .. bridges' /\ bridges' # 0
           /\ bridges' \notin shut'
      BY <1>1, <1>4, Parts DEF b, Bridges, StdioConstants
    <2>20. pc' \in [Callers -> Pcs] /\ pc'[c] \in {"thread", "undoOut"}
      BY <1>4, GotoIs, Zenon DEF Pcs
    <2>21. Types'
      BY <1>1, <2>5, <2>9, <2>19, <2>20, Parts, TypesAre, Zenon
    <2>22. Stage(c)'
      <3>1. CASE pc'[c] = "undoOut"
        BY <1>1, <1>2, <1>3, <2>5, <3>1, ToUndo, Zenon
      <3>2. CASE pc'[c] = "thread"
        <4>1. Put(Held, "read", read) \in [Handles -> {None} \cup 3 .. MaxFd]
          BY <2>13, Zenon DEF Table
        <4>2. /\ Held'["write"] # None /\ Held'["savedOut"] # None /\ Held'["savedErr"] # None
          BY <1>2, <2>3, <2>6, <2>11, <2>14, <4>1, PutIs DEF Handles
        <4>3. Untouched'
          BY <1>3, <2>5, <2>17, Zenon DEF Untouched
        <4> QED
          BY <1>1, <1>2, <1>3, <2>5, <2>19, <3>2, <4>2, <4>3, Zenon DEF Stage
      <3> QED
        BY <2>20, <3>1, <3>2, Zenon
    <2> QED
      BY <2>15, <2>17, <2>18, <2>21, <2>22, Assemble, Zenon
  <1>5. CASE Goto(c, "undoOut") /\ fdmap' = fdmap /\ st' = st /\ bridges' = bridges
    <2>1. pc' \in [Callers -> Pcs] /\ pc'[c] = "undoOut"
      BY <1>5, GotoIs, Zenon DEF Pcs
    <2>2. Stage(c)'
      BY <1>1, <1>2, <1>3, <1>5, <2>1, ToUndo, Zenon
    <2> QED
      BY <1>1, <1>5, <2>1, <2>2, Parts, CallerMoves, Zenon
  <1> QED
    BY <1>4, <1>5, Zenon DEF MakeBridge

LEMMA CreateThreadStep ==
    ASSUME StdioConstants, Inv, NEW c \in Callers, CreateThread(c)
    PROVE  Inv'
  <1>1. /\ pc[c] = "thread" /\ mutex = c /\ op' = op /\ result' = result
        /\ fdmap' = fdmap /\ shut' = shut /\ bridges' = bridges /\ Stage(c)
        /\ st \in StType /\ Held' = HeldOf(st') /\ Held = HeldOf(st)
    BY Parts, Zenon DEF CreateThread, Holds, Held
  <1>2. /\ Untouched /\ op[c] = "redirect" /\ ~st.wakeProven /\ bridges # 0 /\ bridges \notin shut
        /\ Held["savedOut"] # None /\ Held["savedErr"] # None /\ Held["write"] # None
    BY <1>1, Zenon DEF Stage
  <1>3. ~st.active /\ ~st.started /\ ~SomeRedirected
    BY <1>2, Zenon DEF Untouched
  <1>4. bridges \in Bridges /\ bridges \in 0 .. MaxBridges
    BY <1>2, Parts DEF Bridges, StdioConstants
  <1>5. CASE /\ reader' = [reader EXCEPT ![bridges] = "starting"]
             /\ st' = [st EXCEPT !.thread = bridges, !.started = TRUE]
             /\ Goto(c, "wait") /\ mutex' = IF st.ready THEN mutex ELSE NoCaller
    <2>1. /\ st' \in StType /\ st'.readFd = st.readFd /\ st'.writeFd = st.writeFd
          /\ st'.saved = st.saved /\ st'.deferred = st.deferred
          /\ st'.active = st.active /\ st'.started /\ st'.thread = bridges
          /\ st'.redirected = st.redirected /\ st'.wakeProven = st.wakeProven
      BY <1>1, <1>4, <1>5, Zenon DEF StType
    <2>2. Held' = Held
      BY <1>1, <2>1, HeldSame, Zenon
    <2>3. Table(fdmap', Held', bridges')
      BY <1>1, <2>2, TableSame, Zenon
    <2>4. StreamsSound' /\ ~SomeRedirected'
      BY <1>1, <1>3, <2>1, StreamsIdle, Zenon
    <2>5. /\ reader' \in [Bridges -> {"none", "starting", "reading", "exited"}]
          /\ \A b \in Bridges \ {bridges} : reader'[b] = reader[b]
      BY <1>4, <1>5, Parts, Zenon
    <2>6. ThreadSound'
      BY <1>1, <1>2, <1>3, <2>1, <2>5, Parts, Zenon DEF ThreadSound
    <2>7. pc' \in [Callers -> Pcs] /\ pc'[c] = "wait"
      BY <1>5, GotoIs, Zenon DEF Pcs
    <2>8. Types'
      BY <1>1, <2>1, <2>5, <2>7, Parts, TypesAre, Zenon
    <2>9. Stage(c)'
      BY <1>1, <1>2, <1>3, <1>5, <2>1, <2>2, <2>4, <2>7, Zenon DEF Stage
    <2> QED
      BY <2>3, <2>4, <2>6, <2>8, <2>9, Assemble, Zenon
  <1>6. CASE Goto(c, "undoOut") /\ reader' = reader /\ st' = st /\ mutex' = mutex
    <2>1. pc' \in [Callers -> Pcs] /\ pc'[c] = "undoOut"
      BY <1>6, GotoIs, Zenon DEF Pcs
    <2>2. Stage(c)'
      BY <1>1, <1>2, <1>3, <1>6, <2>1, ToUndo, Zenon
    <2> QED
      BY <1>1, <1>6, <2>1, <2>2, Parts, CallerMoves, Zenon
  <1> QED
    BY <1>5, <1>6, Zenon DEF CreateThread

LEMMA WaitReadyStep ==
    ASSUME StdioConstants, Inv, NEW c \in Callers, WaitReady(c)
    PROVE  Inv'
  <1>1. /\ pc[c] = "wait" /\ mutex' = c /\ op' = op /\ result' = result /\ Stage(c)
        /\ UNCHANGED <<fdmap, st, reader, shut, bridges>> /\ Held' = Held
    BY Parts, Zenon DEF WaitReady, BridgeKept, Held
  <1>2. pc' \in [Callers -> Pcs] /\ pc'[c] = "moveOut"
    BY GotoIs, Zenon DEF Pcs, WaitReady
  <1>3. Stage(c)'
    BY <1>1, <1>2, Zenon DEF Stage, SomeRedirected
  <1> QED
    BY <1>1, <1>2, <1>3, Parts, CallerMoves, Zenon

LEMMA RedirectDoneStep ==
    ASSUME StdioConstants, Inv, NEW c \in Callers, RedirectDone(c)
    PROVE  Inv'
  <1>1. /\ pc[c] = "moved" /\ op' = op /\ Stage(c) /\ mutex' = NoCaller
        /\ result' \in [Callers -> {"ok", "error"}]
        /\ UNCHANGED <<fdmap, reader, shut, bridges>>
        /\ st \in StType /\ Held' = HeldOf(st') /\ Held = HeldOf(st)
    BY Parts, Zenon DEF RedirectDone, Holds, BridgeKept, Held, Return
  <1>2. /\ st' \in StType /\ st'.readFd = st.readFd /\ st'.writeFd = st.writeFd
        /\ st'.saved = st.saved /\ st'.deferred = st.deferred
        /\ st'.active /\ st'.started = st.started /\ st'.thread = st.thread
        /\ st'.redirected = st.redirected /\ st'.wakeProven = st.wakeProven
    BY <1>1, Zenon DEF RedirectDone, StType
  <1>3. Held' = Held
    BY <1>1, <1>2, HeldSame, Zenon
  <1>4. Table(fdmap', Held', bridges')
    BY <1>1, <1>3, TableSame, Zenon
  <1>5. StreamsSound'
    BY <1>1, <1>2, <1>3, Parts, Zenon DEF StreamsSound
  <1>6. ThreadSound'
    BY <1>1, <1>2, Parts, Zenon DEF ThreadSound, Eof
  <1>7. pc' \in [Callers -> Pcs] /\ pc'[c] = "idle"
    BY GotoIs, Zenon DEF Pcs, RedirectDone, Return
  <1>8. Types'
    BY <1>1, <1>2, <1>7, Parts, TypesAre, Zenon
  <1>9. Stage(c)'
    BY <1>1, <1>2, <1>7, Zenon DEF Stage
  <1> QED
    BY <1>4, <1>5, <1>6, <1>8, <1>9, Assemble, Zenon

LEMMA RestoreCallStep ==
    ASSUME StdioConstants, Inv, NEW c \in Callers, RestoreCall(c)
    PROVE  Inv'
  <1>1. /\ pc[c] = "idle" /\ mutex = NoCaller /\ Stage(c)
        /\ UNCHANGED <<fdmap, st, reader, shut, bridges>>
        /\ op' \in [Callers -> {"redirect", "restore"}] /\ op'[c] = "restore"
        /\ Held' = Held
    BY Parts, Zenon DEF RestoreCall, BridgeKept, Held
  <1>2. CASE st.active
    <2>1. Goto(c, "undoOut") /\ mutex' = c /\ result' = result
      BY <1>2, Zenon DEF RestoreCall
    <2>2. pc' \in [Callers -> Pcs] /\ pc'[c] = "undoOut"
      BY <2>1, GotoIs, Zenon DEF Pcs
    <2>3. Stage(c)'
      BY <1>1, <1>2, <2>1, <2>2, Zenon DEF Stage
    <2> QED
      BY <1>1, <2>1, <2>2, <2>3, Parts, CallerMoves, Zenon
  <1>3. CASE ~st.active
    <2>1. /\ pc' = pc /\ mutex' = mutex /\ result' \in [Callers -> {"ok", "error"}]
          /\ pc' \in [Callers -> Pcs]
      BY <1>3, Parts, Zenon DEF RestoreCall
    <2>2. Untouched /\ NoneHeld(Handles)
      BY <1>1, <1>3, Zenon DEF Stage
    <2>3. Untouched' /\ NoneHeld(Handles)'
      BY <1>1, <2>2, Zenon DEF Untouched, NoneHeld, SomeRedirected
    <2>4. Stage(c)'
      BY <1>1, <1>3, <2>1, <2>3, Zenon DEF Stage, Untouched
    <2> QED
      BY <1>1, <2>1, <2>4, CallerMoves, Zenon
  <1> QED
    BY <1>2, <1>3, Zenon

LEMMA ExchangeIs ==
    ASSUME NEW m, m \in [Fds -> Objects], NEW f \in Fds, NEW g \in Fds, f # g
    PROVE  /\ Exchange(m, f, g) \in [Fds -> Objects]
           /\ Exchange(m, f, g)[f] = m[g] /\ Exchange(m, f, g)[g] = m[f]
           /\ \A k \in Fds : k # f /\ k # g => Exchange(m, f, g)[k] = m[k]
  BY Zenon DEF Exchange

LEMMA FdApart ==
    /\ \A r, s \in Streams : r # s => Fd(r) # Fd(s) /\ Saved(r) # Saved(s)
    /\ \A r, s \in Streams : Saved(r) # ToRedirect(s) /\ Saved(r) # ToRestore(s)
  BY DEF Fd, Streams, Saved, ToRedirect, ToRestore

LEMMA MoveStep ==
    ASSUME StdioConstants, Inv, NEW c \in Callers, NEW at, NEW s \in Streams, NEW next \in Pcs,
           \/ at = "moveOut" /\ s = "stdout" /\ next = "moveErr"
           \/ at = "moveErr" /\ s = "stderr" /\ next = "moved",
           Move(c, at, s, next)
    PROVE  Inv'
  <1> DEFINE slot == <<s, "redirect">>
             dup == [fdmap EXCEPT ![NewFd] = fdmap[st.writeFd]]
             swapped == Exchange(dup, Fd(s), NewFd)
  <1>1. /\ pc[c] = at /\ mutex = c /\ mutex' = c /\ op' = op /\ result' = result
        /\ reader' = reader /\ shut' = shut /\ bridges' = bridges /\ Stage(c)
        /\ st \in StType /\ Held' = HeldOf(st') /\ Held = HeldOf(st)
        /\ Table(fdmap, Held, bridges)
    BY Parts, Zenon DEF Move, Holds, BridgeKept, Held
  <1>2. /\ op[c] = "redirect" /\ ~st.active /\ ~st.wakeProven /\ bridges # 0 /\ bridges \notin shut
        /\ Held["savedOut"] # None /\ Held["savedErr"] # None /\ Held["write"] # None
        /\ ~st.redirected[s] /\ (at = "moveOut" => ~st.redirected["stderr"])
    BY <1>1, Zenon DEF Stage, SomeRedirected, Streams
  <1>3. /\ NewFd \in 3 .. MaxFd /\ NewFd \in Fds /\ fdmap[NewFd] = Closed
        /\ NewFd \in Nat /\ NewFd # None /\ \A r \in Streams : Fd(r) # NewFd
    BY NewFdOk, Zenon
  <1>4. fdmap[st.writeFd] = WriteEnd(bridges) /\ fdmap[Fd(s)] = Original(s)
    <2>1. fdmap[Held["write"]] \in Allowed("write", bridges)
      BY <1>2, HeldOk, EndNames, Zenon
    <2> QED
      BY <1>2, <2>1, EndNames, Parts, SMTT(20) DEF StreamsSound
  <1>5. fdmap \in [Fds -> Objects] /\ WriteEnd(bridges) \in Objects /\ Closed \in Objects
    BY <1>2, Parts, ObjectsAre DEF Bridges, StdioConstants
  <1>6. \A r \in Streams : Fd(r) \in Fds /\ Fd(r) \notin 3 .. MaxFd
    BY FdIs, Zenon
  <1>7. 3 .. MaxFd \subseteq Fds
    BY DEF Fds, StdioConstants
  <1>8. /\ dup \in [Fds -> Objects] /\ dup[NewFd] = WriteEnd(bridges)
        /\ \A f \in Fds \ {NewFd} : dup[f] = fdmap[f]
    BY <1>3, <1>4, <1>5, Zenon
  <1> HIDE DEF dup
  <1>9. /\ swapped \in [Fds -> Objects] /\ swapped[Fd(s)] = WriteEnd(bridges)
        /\ swapped[NewFd] = Original(s)
        /\ \A f \in Fds : f # Fd(s) /\ f # NewFd => swapped[f] = fdmap[f]
    <2>1. /\ swapped \in [Fds -> Objects] /\ swapped[Fd(s)] = dup[NewFd]
          /\ swapped[NewFd] = dup[Fd(s)]
          /\ \A f \in Fds : f # Fd(s) /\ f # NewFd => swapped[f] = dup[f]
      <3>1. /\ dup \in [Fds -> Objects] /\ Fd(s) \in Fds /\ NewFd \in Fds /\ Fd(s) # NewFd
        BY <1>3, <1>6, <1>8, Zenon
      <3> QED
        BY <3>1, ExchangeIs
    <2> QED
      BY <1>3, <1>4, <1>6, <1>8, <2>1, Zenon
  <1> HIDE DEF swapped
  <1>10. slot \in Slots /\ Saved("stdout") = "savedOut" /\ Saved("stderr") = "savedErr"
    BY Zenon DEF Slots, Saved
  <1>11. st.redirected \in [Streams -> BOOLEAN] /\ st.deferred \in [Slots -> Nat]
    BY <1>1, StParts, Zenon
  <1>12. \A r \in Streams : Held[Saved(r)] # None
    BY <1>2, <1>10, Zenon DEF Streams
  <1>13. ASSUME Goto(c, next), st' \in StType, st'.redirected = [st.redirected EXCEPT ![s] = TRUE],
                st'.active = st.active, st'.started = st.started, st'.thread = st.thread,
                st'.wakeProven = st.wakeProven,
                \A r \in Streams : Held'[Saved(r)] # None, Held'["write"] # None,
                fdmap' \in [Fds -> Objects], fdmap'[Fd(s)] = WriteEnd(bridges),
                \A r \in Streams \ {s} : fdmap'[Fd(r)] = fdmap[Fd(r)],
                Table(fdmap', Held', bridges')
         PROVE  Inv'
    <2>1. st'.redirected[s] /\ \A r \in Streams \ {s} : st'.redirected[r] = st.redirected[r]
      BY <1>11, <1>13, Zenon
    <2>2. StreamsSound'
      BY <1>1, <1>2, <1>12, <1>13, <2>1, Parts, SMTT(20) DEF StreamsSound
    <2>3. ThreadSound'
      BY <1>1, <1>2, <1>13, ThreadKept, Zenon
    <2>4. pc' \in [Callers -> Pcs] /\ pc'[c] = next
      BY <1>13, GotoIs, Zenon
    <2>5. Types'
      BY <1>1, <1>13, <2>4, Parts, TypesAre, Zenon
    <2>6. Held'["savedOut"] # None /\ Held'["savedErr"] # None
      BY <1>10, <1>13, Zenon DEF Streams
    <2>7. Stage(c)'
      <3>1. CASE at = "moveOut"
        <4>1. next = "moveErr" /\ ~st'.redirected["stderr"]
          BY <1>2, <2>1, <3>1, Zenon DEF Streams
        <4> QED
          BY <1>1, <1>2, <1>13, <2>4, <2>6, <4>1, Zenon DEF Stage
      <3>2. CASE next = "moved"
        BY <1>1, <1>2, <1>13, <2>4, <3>2, Zenon DEF Stage
      <3> QED
        BY <3>1, <3>2, Zenon
    <2> QED
      BY <1>13, <2>2, <2>3, <2>5, <2>7, Assemble, Zenon
  <1>14. CASE /\ Goto(c, next) /\ fdmap' = [swapped EXCEPT ![NewFd] = Closed]
              /\ st' = [st EXCEPT !.redirected[s] = TRUE]
    <2>1. /\ st' \in StType /\ st'.redirected = [st.redirected EXCEPT ![s] = TRUE]
          /\ st'.readFd = st.readFd /\ st'.writeFd = st.writeFd
          /\ st'.saved = st.saved /\ st'.deferred = st.deferred
          /\ st'.active = st.active /\ st'.started = st.started /\ st'.thread = st.thread
          /\ st'.wakeProven = st.wakeProven
      BY <1>1, <1>14, Zenon DEF StType
    <2>2. Held' = Held
      BY <1>1, <2>1, HeldSame, Zenon
    <2>3. /\ fdmap' \in [Fds -> Objects] /\ fdmap'[NewFd] = Closed
          /\ \A f \in Fds \ {NewFd} : fdmap'[f] = swapped[f]
      BY <1>3, <1>5, <1>9, <1>14, Zenon
    <2>4. \A f \in 3 .. MaxFd : fdmap'[f] = fdmap[f]
      BY <1>3, <1>6, <1>7, <1>9, <2>3, Zenon
    <2>5. Table(fdmap', Held', bridges')
      BY <1>1, <2>2, <2>4, TableKept, Zenon
    <2>6. /\ fdmap'[Fd(s)] = WriteEnd(bridges)
          /\ \A r \in Streams \ {s} : fdmap'[Fd(r)] = fdmap[Fd(r)]
      BY <1>3, <1>6, <1>9, <2>3, FdApart, Zenon
    <2> QED
      BY <1>2, <1>12, <1>13, <1>14, <2>1, <2>2, <2>3, <2>5, <2>6, Zenon
  <1>15. CASE /\ Goto(c, next) /\ st.deferred[slot] = None /\ fdmap' = swapped
              /\ st' = [st EXCEPT !.redirected[s] = TRUE, !.deferred[slot] = NewFd]
    <2>1. /\ st' \in StType /\ st'.redirected = [st.redirected EXCEPT ![s] = TRUE]
          /\ st'.readFd = st.readFd /\ st'.writeFd = st.writeFd
          /\ st'.saved = st.saved /\ st'.deferred = [st.deferred EXCEPT ![slot] = NewFd]
          /\ st'.active = st.active /\ st'.started = st.started /\ st'.thread = st.thread
          /\ st'.wakeProven = st.wakeProven
      BY <1>1, <1>3, <1>15, Zenon DEF StType
    <2>2. Held' = Put(Held, ToRedirect(s), NewFd)
      BY <1>1, <1>11, <2>1, HeldRedirect, SMTT(20)
    <2>3. ToRedirect(s) \in Handles /\ Held[ToRedirect(s)] = None
      BY <1>15, HandleNames, Zenon
    <2>4. Table(fdmap', Held', bridges')
      <3>1. fdmap'[NewFd] \in Allowed(ToRedirect(s), bridges)
        BY <1>9, <1>15, HandleNames, Zenon
      <3>2. \A f \in 3 .. MaxFd \ {NewFd} : fdmap'[f] = fdmap[f]
        BY <1>6, <1>7, <1>9, <1>15, Zenon
      <3> QED
        BY <1>1, <1>3, <2>2, <2>3, <3>1, <3>2, TableFill, Zenon
    <2>5. \A h \in Handles \ {ToRedirect(s)} : Held'[h] = Held[h]
      BY <2>2, <2>3, HeldType, PutIs
    <2>6. "write" \in Handles \ {ToRedirect(s)} /\ \A r \in Streams : Saved(r) \in Handles
      BY HandleNames, Zenon DEF ToRedirect, Handles
    <2>7. Held'["write"] # None /\ \A r \in Streams : Held'[Saved(r)] # None
      BY <1>2, <1>12, <2>5, <2>6, FdApart, Zenon
    <2>8. /\ fdmap' \in [Fds -> Objects] /\ fdmap'[Fd(s)] = WriteEnd(bridges)
          /\ \A r \in Streams \ {s} : fdmap'[Fd(r)] = fdmap[Fd(r)]
      BY <1>3, <1>6, <1>9, <1>15, FdApart, Zenon
    <2> QED
      BY <1>13, <1>15, <2>1, <2>4, <2>7, <2>8, Zenon
  <1>16. CASE Goto(c, "undoOut") /\ fdmap' = fdmap /\ st' = st
    <2>1. pc' \in [Callers -> Pcs] /\ pc'[c] = "undoOut"
      BY <1>16, GotoIs, Zenon DEF Pcs
    <2>2. Stage(c)'
      BY <1>1, <1>2, <1>16, <2>1, ToUndo, Zenon
    <2> QED
      BY <1>1, <1>16, <2>1, <2>2, Parts, CallerMoves, Zenon
  <1>17. CASE /\ Goto(c, "undoOut") /\ st.deferred[slot] = None /\ fdmap' = dup
              /\ st' = [st EXCEPT !.deferred[slot] = NewFd]
    <2>1. /\ st' \in StType /\ st'.redirected = st.redirected
          /\ st'.readFd = st.readFd /\ st'.writeFd = st.writeFd
          /\ st'.saved = st.saved /\ st'.deferred = [st.deferred EXCEPT ![slot] = NewFd]
          /\ st'.active = st.active /\ st'.started = st.started /\ st'.thread = st.thread
          /\ st'.wakeProven = st.wakeProven
      BY <1>1, <1>3, <1>17, Zenon DEF StType
    <2>2. Held' = Put(Held, ToRedirect(s), NewFd)
      BY <1>1, <1>11, <2>1, HeldRedirect, SMTT(20)
    <2>3. ToRedirect(s) \in Handles /\ Held[ToRedirect(s)] = None
      BY <1>17, HandleNames, Zenon
    <2>4. Table(fdmap', Held', bridges')
      <3>1. fdmap'[NewFd] \in Allowed(ToRedirect(s), bridges)
        BY <1>8, <1>17, HandleNames, Zenon
      <3>2. \A f \in 3 .. MaxFd \ {NewFd} : fdmap'[f] = fdmap[f]
        BY <1>7, <1>8, <1>17, Zenon
      <3> QED
        BY <1>1, <1>3, <2>2, <2>3, <3>1, <3>2, TableFill, Zenon
    <2>5. \A h \in Handles \ {ToRedirect(s)} : Held'[h] = Held[h]
      BY <2>2, <2>3, HeldType, PutIs
    <2>6. \A r \in Streams : Held'[Saved(r)] # None
      BY <1>12, <2>5, FdApart, HandleNames, Zenon
    <2>7. fdmap' \in [Fds -> Objects] /\ \A r \in Streams : fdmap'[Fd(r)] = fdmap[Fd(r)]
      BY <1>3, <1>6, <1>8, <1>17, Zenon
    <2>8. StreamsSound'
      BY <1>1, <2>1, <2>6, <2>7, StreamsKept, Zenon
    <2>9. ThreadSound'
      BY <1>1, <1>2, <2>1, ThreadKept, Zenon
    <2>10. pc' \in [Callers -> Pcs] /\ pc'[c] = "undoOut"
      BY <1>17, GotoIs, Zenon DEF Pcs
    <2>11. Types'
      BY <1>1, <2>1, <2>7, <2>10, Parts, TypesAre, Zenon
    <2>12. Stage(c)'
      BY <1>1, <1>2, <2>1, <2>10, ToUndo, Zenon
    <2> QED
      BY <2>4, <2>8, <2>9, <2>11, <2>12, Assemble, Zenon
  <1> QED
    BY <1>14, <1>15, <1>16, <1>17, Zenon DEF Move, dup, swapped

LEMMA PassIs ==
    ASSUME NEW held, held \in [Handles -> {None} \cup 3 .. MaxFd],
           NEW h \in Handles, NEW k \in Handles, h # k
    PROVE  \A g \in Handles : g # h /\ g # k => Pass(held, h, k)[g] = held[g]
  BY Zenon DEF Pass

LEMMA DropOne ==
    ASSUME NEW held, held \in [Handles -> {None} \cup 3 .. MaxFd], NEW h \in Handles
    PROVE  Put(held, h, None) = Drop(held, {h})
  BY Zenon DEF Put, Drop

LEMMA UndoStep ==
    ASSUME StdioConstants, Inv, NEW c \in Callers, NEW at, NEW s \in Streams, NEW next \in Pcs,
           \/ at = "undoOut" /\ s = "stdout" /\ next = "undoErr"
           \/ at = "undoErr" /\ s = "stderr" /\ next = "undone",
           Undo(c, at, s, next)
    PROVE  Inv'
  <1> DEFINE slot == <<s, "restore">>
             saved == st.saved[s]
             moved == Exchange(fdmap, Fd(s), saved)
  <1>1. /\ pc[c] = at /\ mutex = c /\ mutex' = c /\ op' = op /\ result' = result
        /\ reader' = reader /\ shut' = shut /\ bridges' = bridges /\ Stage(c)
        /\ st \in StType /\ Held' = HeldOf(st') /\ Held = HeldOf(st)
        /\ Table(fdmap, Held, bridges)
    BY Parts, Zenon DEF Undo, Holds, BridgeKept, Held
  <1>2. st.active <=> op[c] = "restore"
    BY <1>1, Zenon DEF Stage
  <1>3. pc' \in [Callers -> Pcs] /\ pc'[c] = next
    BY GotoIs, Zenon DEF Undo
  <1>4. ASSUME st'.active = st.active PROVE Stage(c)'
    BY <1>1, <1>2, <1>3, <1>4, Zenon DEF Stage
  <1>5. CASE fdmap' = fdmap /\ st' = st
    BY <1>1, <1>3, <1>4, <1>5, Parts, CallerMoves, Zenon
  <1>6. CASE /\ st.redirected[s] /\ saved # None /\ st.deferred[slot] = None
             /\ \/ /\ fdmap' = [moved EXCEPT ![saved] = Closed]
                   /\ st' = [st EXCEPT !.redirected[s] = FALSE, !.saved[s] = None]
                \/ /\ fdmap' = moved
                   /\ st' = [st EXCEPT !.redirected[s] = FALSE, !.saved[s] = None,
                                       !.deferred[slot] = saved]
    <2>1. /\ Saved(s) \in Handles /\ ToRestore(s) \in Handles /\ Saved(s) # ToRestore(s)
          /\ Held[Saved(s)] = saved /\ Held[ToRestore(s)] = None
      BY <1>6, HandleNames, Zenon
    <2>2. saved \in 3 .. MaxFd /\ fdmap[saved] = Original(s)
      <3>1. saved \in 3 .. MaxFd /\ fdmap[saved] \in Allowed(Saved(s), bridges)
        BY <1>6, <2>1, HeldOk, Zenon
      <3>2. Allowed(Saved(s), bridges) = {Original(s)}
        BY HandleNames, Zenon
      <3> QED
        BY <3>1, <3>2, Zenon
    <2>3. fdmap[Fd(s)] = WriteEnd(bridges) /\ bridges \notin shut
      BY <1>6, Parts, Zenon DEF StreamsSound
    <2>4. \A r \in Streams : Fd(r) \in Fds /\ Fd(r) \notin 3 .. MaxFd
      BY FdIs, Zenon
    <2>5. 3 .. MaxFd \subseteq Fds
      BY DEF Fds, StdioConstants
    <2>6. fdmap \in [Fds -> Objects] /\ Closed \in Objects
      BY Parts, Zenon DEF Objects
    <2>7. saved \in Fds /\ Fd(s) \in Fds /\ Fd(s) # saved
      BY <2>2, <2>4, <2>5, Zenon
    <2> HIDE DEF saved
    <2>8. /\ moved \in [Fds -> Objects] /\ moved[Fd(s)] = Original(s)
          /\ moved[saved] = WriteEnd(bridges)
          /\ \A f \in Fds : f # Fd(s) /\ f # saved => moved[f] = fdmap[f]
      <3>1. /\ moved \in [Fds -> Objects] /\ moved[Fd(s)] = fdmap[saved]
            /\ moved[saved] = fdmap[Fd(s)]
            /\ \A f \in Fds : f # Fd(s) /\ f # saved => moved[f] = fdmap[f]
        BY <2>6, <2>7, ExchangeIs
      <3> QED
        BY <2>2, <2>3, <3>1, Zenon
    <2> HIDE DEF moved
    <2>9. ~(st.started /\ st.wakeProven)
      <3>1. ~Eof(bridges)
        BY <2>3, <2>4, Zenon DEF Eof
      <3> QED
        BY <3>1, Parts, Zenon DEF ThreadSound
    <2>10. /\ st.saved \in [Streams -> Nat] /\ st.deferred \in [Slots -> Nat]
           /\ st.redirected \in [Streams -> BOOLEAN] /\ saved \in Nat /\ None \in Nat
      BY <1>1, StParts, Zenon DEF saved, None
    <2>11. slot \in Slots
      BY Zenon DEF Slots
    <2>12. ASSUME st' \in StType, st'.redirected = [st.redirected EXCEPT ![s] = FALSE],
                  st'.active = st.active, st'.started = st.started, st'.thread = st.thread,
                  st'.wakeProven = st.wakeProven,
                  \A r \in Streams \ {s} : Held'[Saved(r)] = Held[Saved(r)],
                  fdmap' \in [Fds -> Objects], fdmap'[Fd(s)] = Original(s),
                  \A r \in Streams \ {s} : fdmap'[Fd(r)] = fdmap[Fd(r)],
                  Table(fdmap', Held', bridges')
           PROVE  Inv'
      <3>1. ~st'.redirected[s] /\ \A r \in Streams \ {s} : st'.redirected[r] = st.redirected[r]
        BY <2>10, <2>12, Zenon
      <3>2. StreamsSound'
        BY <1>1, <2>12, <3>1, Parts DEF StreamsSound
      <3>3. ThreadSound'
        BY <1>1, <2>9, <2>12, ThreadKept, Zenon
      <3>4. Types'
        BY <1>1, <1>3, <2>12, Parts, TypesAre, Zenon
      <3> QED
        BY <1>4, <2>12, <3>2, <3>3, <3>4, Assemble, Zenon
    <2>13. CASE /\ fdmap' = [moved EXCEPT ![saved] = Closed]
                /\ st' = [st EXCEPT !.redirected[s] = FALSE, !.saved[s] = None]
      <3>1. /\ st' \in StType /\ st'.redirected = [st.redirected EXCEPT ![s] = FALSE]
            /\ st'.readFd = st.readFd /\ st'.writeFd = st.writeFd
            /\ st'.saved = [st.saved EXCEPT ![s] = None] /\ st'.deferred = st.deferred
            /\ st'.active = st.active /\ st'.started = st.started /\ st'.thread = st.thread
            /\ st'.wakeProven = st.wakeProven
        BY <1>1, <2>10, <2>13, Zenon DEF StType
      <3>2. Held' = Put(Held, Saved(s), None)
        <4>1. /\ Held' = HeldOf(st') /\ Held = HeldOf(st) /\ st.saved \in [Streams -> Nat]
              /\ st'.readFd = st.readFd /\ st'.writeFd = st.writeFd
              /\ st'.saved = [st.saved EXCEPT ![s] = None] /\ st'.deferred = st.deferred
          BY <1>1, <2>10, <3>1, Zenon
        <4>2. st'.saved[s] = None /\ \A r \in Streams \ {s} : st'.saved[r] = st.saved[r]
          BY <4>1, Zenon
        <4> QED
          BY <4>1, <4>2, HeldSaved, SMTT(20)
      <3>3. \A h \in Handles \ {Saved(s)} : Held'[h] = Held[h]
        BY <2>1, <3>2, HeldType, PutIs
      <3>4. Held' = Drop(Held, {Saved(s)})
        BY <2>1, <3>2, HeldType, DropOne, Zenon
      <3>5. /\ fdmap' \in [Fds -> Objects] /\ fdmap'[saved] = Closed
            /\ \A f \in Fds \ {saved} : fdmap'[f] = moved[f]
        BY <2>6, <2>7, <2>8, <2>13, Zenon
      <3>6. /\ fdmap'[Fd(s)] = Original(s)
            /\ \A r \in Streams \ {s} : fdmap'[Fd(r)] = fdmap[Fd(r)]
        BY <2>2, <2>4, <2>8, <3>5, FdApart, Zenon
      <3>7. \A r \in Streams \ {s} : Held'[Saved(r)] = Held[Saved(r)]
        BY <3>3, FdApart, HandleNames, Zenon
      <3>8. \A f \in 3 .. MaxFd : fdmap'[f] = IF \E h \in {Saved(s)} : Held[h] = f
                                              THEN Closed ELSE fdmap[f]
        BY <2>1, <2>4, <2>5, <2>8, <3>5, Zenon
      <3>9. {Saved(s)} \in SUBSET Handles
        BY <2>1, Zenon
      <3>10. Table(fdmap', Held', bridges')
        BY <1>1, <3>4, <3>8, <3>9, TableDrop
      <3> QED
        BY <2>12, <3>1, <3>5, <3>6, <3>7, <3>10, Zenon
    <2>14. CASE /\ fdmap' = moved
                /\ st' = [st EXCEPT !.redirected[s] = FALSE, !.saved[s] = None,
                                    !.deferred[slot] = saved]
      <3>1. /\ st' \in StType /\ st'.redirected = [st.redirected EXCEPT ![s] = FALSE]
            /\ st'.readFd = st.readFd /\ st'.writeFd = st.writeFd
            /\ st'.saved = [st.saved EXCEPT ![s] = None]
            /\ st'.deferred = [st.deferred EXCEPT ![slot] = saved]
            /\ st'.active = st.active /\ st'.started = st.started /\ st'.thread = st.thread
            /\ st'.wakeProven = st.wakeProven
        BY <1>1, <2>10, <2>14, Zenon DEF StType
      <3>2. Held' = Pass(Held, Saved(s), ToRestore(s))
        <4>1. /\ Held' = HeldOf(st') /\ Held = HeldOf(st) /\ st.saved \in [Streams -> Nat]
              /\ st.deferred \in [Slots -> Nat]
              /\ st'.readFd = st.readFd /\ st'.writeFd = st.writeFd
              /\ st'.saved = [st.saved EXCEPT ![s] = None]
              /\ st'.deferred = [st.deferred EXCEPT ![<<s, "restore">>] = st.saved[s]]
          BY <1>1, <2>10, <3>1, Zenon DEF saved
        <4> QED
          BY <4>1, HeldRestore, Zenon
      <3>3. \A h \in Handles : h # Saved(s) /\ h # ToRestore(s) => Held'[h] = Held[h]
        BY <2>1, <3>2, HeldType, PassIs, Zenon
      <3>4. /\ fdmap' \in [Fds -> Objects] /\ fdmap'[Fd(s)] = Original(s)
            /\ \A r \in Streams \ {s} : fdmap'[Fd(r)] = fdmap[Fd(r)]
        BY <2>2, <2>4, <2>8, <2>14, FdApart, Zenon
      <3>5. \A r \in Streams \ {s} : Held'[Saved(r)] = Held[Saved(r)]
        BY <3>3, FdApart, HandleNames, Zenon
      <3>6. fdmap'[Held[Saved(s)]] \in Allowed(ToRestore(s), bridges)
        BY <2>1, <2>8, <2>14, HandleNames, Zenon
      <3>7. \A f \in 3 .. MaxFd : f # Held[Saved(s)] => fdmap'[f] = fdmap[f]
        BY <2>1, <2>4, <2>5, <2>8, <2>14, Zenon
      <3>8. Held[Saved(s)] # None
        BY <1>6, <2>1, Zenon
      <3>9. Table(fdmap', Held', bridges')
        BY <1>1, <2>1, <3>2, <3>6, <3>7, <3>8, TablePass, Zenon
      <3> QED
        BY <2>12, <3>1, <3>4, <3>5, <3>9, Zenon
    <2> QED
      BY <1>6, <2>13, <2>14, Zenon
  <1> QED
    BY <1>5, <1>6, Zenon DEF Undo, RestoreSlot

LEMMA UndoneStep ==
    ASSUME StdioConstants, Inv, NEW c \in Callers, Undone(c)
    PROVE  Inv'
  <1>1. /\ pc[c] = "undone" /\ mutex = c /\ op' = op /\ Stage(c)
        /\ UNCHANGED <<fdmap, st, reader, shut, bridges>> /\ Held' = Held
        /\ op \in [Callers -> {"redirect", "restore"}]
    BY Parts, Zenon DEF Undone, Holds, BridgeKept, Held
  <1>2. st.active <=> op[c] = "restore"
    BY <1>1, Zenon DEF Stage
  <1>3. CASE op[c] = "restore" /\ SomeRedirected
    <2>1. Return(c, "error")
      BY <1>3, Zenon DEF Undone
    <2>2. /\ pc' \in [Callers -> Pcs] /\ pc'[c] = "idle" /\ mutex' = NoCaller
          /\ result' \in [Callers -> {"ok", "error"}] /\ result'[c] = "error"
      BY <2>1, GotoIs, Parts, Zenon DEF Return, Pcs
    <2>3. Stage(c)'
      BY <1>1, <1>2, <1>3, <2>2, Zenon DEF Stage
    <2> QED
      BY <1>1, <2>2, <2>3, Parts, CallerMoves, Zenon
  <1>4. CASE ~(op[c] = "restore" /\ SomeRedirected)
    <2>1. Goto(c, "closeSaved") /\ mutex' = mutex /\ result' = result
      BY <1>4, Zenon DEF Undone
    <2>2. pc' \in [Callers -> Pcs] /\ pc'[c] = "closeSaved"
      BY <2>1, GotoIs, Zenon DEF Pcs
    <2>3. Stage(c)'
      BY <1>1, <1>2, <1>4, <2>1, <2>2, Zenon DEF Stage, SomeRedirected
    <2> QED
      BY <1>1, <2>1, <2>2, <2>3, Parts, CallerMoves, Zenon
  <1> QED
    BY <1>3, <1>4, Zenon

LEMMA HeldDropped ==
    ASSUME NEW t, NEW u, NEW gone,
           \A h \in Handles : HeldOf(u)[h] = IF h \in gone THEN None ELSE HeldOf(t)[h]
    PROVE  HeldOf(u) = Drop(HeldOf(t), gone)
  BY HeldIs, Zenon DEF Drop

(* close of descriptors that are held as the handles of a set. *)
LEMMA CloseIs ==
    ASSUME StdioConstants, Inv, NEW fds, NEW stuck, NEW gone \in SUBSET Handles,
           Close(fds, stuck), fds \subseteq 3 .. MaxFd,
           \A f \in 3 .. MaxFd : f \in fds \ stuck <=> \E h \in gone : Held[h] = f
    PROVE  /\ fdmap' \in [Fds -> Objects]
           /\ \A s \in Streams : fdmap'[Fd(s)] = fdmap[Fd(s)]
           /\ Table(fdmap', Drop(Held, gone), bridges)
           /\ \A f \in Fds : fdmap'[f] = Closed \/ fdmap'[f] = fdmap[f]
  <1>1. fdmap \in [Fds -> Objects] /\ Closed \in Objects /\ Table(fdmap, Held, bridges)
    BY Parts, Zenon DEF Objects
  <1>2. fdmap' = [f \in Fds |-> IF f \in fds \ stuck THEN Closed ELSE fdmap[f]]
    BY Zenon DEF Close
  <1>3. fdmap' \in [Fds -> Objects] /\ \A f \in Fds : fdmap'[f] = Closed \/ fdmap'[f] = fdmap[f]
    BY <1>1, <1>2, Zenon
  <1>4. \A s \in Streams : fdmap'[Fd(s)] = fdmap[Fd(s)]
    BY <1>2, FdIs, Zenon
  <1>5. 3 .. MaxFd \subseteq Fds
    BY DEF Fds, StdioConstants
  <1>6. \A f \in 3 .. MaxFd : fdmap'[f] = IF \E h \in gone : Held[h] = f THEN Closed ELSE fdmap[f]
    BY <1>2, <1>5, Zenon
  <1>7. Table(fdmap', Drop(Held, gone), bridges)
    BY <1>1, <1>6, TableDrop, Zenon
  <1> QED
    BY <1>3, <1>4, <1>7, Zenon

(* An end of file stays. *)
LEMMA EofStays ==
    ASSUME bridges' = bridges, shut \subseteq shut',
           \A f \in Fds : fdmap'[f] = Closed \/ fdmap'[f] = fdmap[f], Eof(bridges)
    PROVE  Eof(bridges)'
  <1>1. Closed # WriteEnd(bridges)
    BY Objected, Zenon
  <1> QED
    BY <1>1, Zenon DEF Eof

LEMMA CloseSavedStep ==
    ASSUME StdioConstants, Inv, NEW c \in Callers, CloseSaved(c)
    PROVE  Inv'
  <1> DEFINE unused == {s \in Streams : ~st.redirected[s] /\ st.saved[s] # None}
             fds == {st.saved[s] : s \in unused}
             next == IF op[c] = "redirect" /\ SomeRedirected THEN "closeDeferred" ELSE "shutdown"
  <1>1. /\ pc[c] = "closeSaved" /\ mutex = c /\ mutex' = c /\ op' = op /\ result' = result
        /\ reader' = reader /\ shut' = shut /\ bridges' = bridges /\ Stage(c)
        /\ st \in StType /\ Held' = HeldOf(st') /\ Held = HeldOf(st)
        /\ op \in [Callers -> {"redirect", "restore"}]
    BY Parts, Zenon DEF CloseSaved, Holds, BridgeKept, Held
  <1>2. /\ st.active <=> op[c] = "restore"
        /\ op[c] = "restore" => ~SomeRedirected
    BY <1>1, Zenon DEF Stage
  <1>3. PICK stuck \in SUBSET fds :
            /\ Close(fds, stuck)
            /\ st' = [st EXCEPT !.saved = [s \in Streams |-> IF s \in unused /\ st.saved[s] \notin stuck
                                                             THEN None ELSE st.saved[s]]]
    BY Zenon DEF CloseSaved
  <1> DEFINE closed == {s \in unused : st.saved[s] \notin stuck}
             gone == {Saved(s) : s \in closed}
  <1>4. st.saved \in [Streams -> Nat] /\ None \in Nat
    BY <1>1, StParts, Zenon DEF None
  <1>5. \A s \in Streams : s \in closed <=> s \in unused /\ st.saved[s] \notin stuck
    BY Zenon
  <1>6. closed \subseteq unused /\ unused \subseteq Streams
    BY Zenon
  <1>7. \A s \in unused : ~st.redirected[s] /\ st.saved[s] # None
    BY Zenon
  <1>8. \A f : f \in fds <=> \E s \in unused : st.saved[s] = f
    BY Zenon
  <1> HIDE DEF unused, fds, closed
  <1>9. /\ st'.saved = [s \in Streams |-> IF s \in closed THEN None ELSE st.saved[s]]
        /\ st' = [st EXCEPT !.saved = st'.saved]
    BY <1>1, <1>3, <1>5, Zenon DEF StType
  <1>10. st'.saved \in [Streams -> Nat]
    BY <1>4, <1>9, Zenon
  <1>11. /\ st' \in StType /\ st'.redirected = st.redirected
         /\ st'.readFd = st.readFd /\ st'.writeFd = st.writeFd /\ st'.deferred = st.deferred
         /\ st'.active = st.active /\ st'.started = st.started /\ st'.thread = st.thread
         /\ st'.wakeProven = st.wakeProven
    BY <1>1, <1>9, <1>10, Zenon DEF StType
  <1>12. \A s \in Streams : Saved(s) \in gone <=> s \in closed
    BY <1>6, FdApart, Zenon
  <1>13. \A h \in gone : \E s \in closed : h = Saved(s)
    BY Zenon
  <1>14. gone \in SUBSET Handles
    BY <1>6, <1>13, HandleNames, Zenon
  <1> HIDE DEF gone
  <1>15. \A s \in Streams : HeldOf(st)[Saved(s)] = st.saved[s] /\ HeldOf(st')[Saved(s)] = st'.saved[s]
    BY HeldIs, Zenon DEF Saved, Streams
  <1>16. \A h \in Handles : HeldOf(st')[h] = IF h \in gone THEN None ELSE HeldOf(st)[h]
    <2> SUFFICES ASSUME NEW h \in Handles
                 PROVE  HeldOf(st')[h] = IF h \in gone THEN None ELSE HeldOf(st)[h]
      BY Zenon
    <2>1. CASE \E s \in Streams : h = Saved(s)
      BY <1>9, <1>12, <1>15, <2>1
    <2>2. CASE ~ \E s \in Streams : h = Saved(s)
      <3>1. h \notin gone
        BY <1>6, <1>13, <2>2, Zenon
      <3>2. h \notin {"savedOut", "savedErr"}
        BY <2>2, Zenon DEF Saved, Streams
      <3>3. HeldOf(st')[h] = HeldOf(st)[h]
        BY <1>11, <3>2, Zenon DEF HeldOf, Handles
      <3> QED
        BY <3>1, <3>3, Zenon
    <2> QED
      BY <2>1, <2>2, Zenon
  <1>17. Held' = Drop(Held, gone)
    BY <1>1, <1>16, HeldDropped, ZenonT(60)
  <1>18. \A s \in Streams : st.saved[s] # None => st.saved[s] \in 3 .. MaxFd
    BY <1>1, <1>15, HeldOk, HandleNames, Zenon
  <1>19. fds \subseteq 3 .. MaxFd
    BY <1>6, <1>7, <1>8, <1>18, Zenon
  <1>20. \A f \in 3 .. MaxFd : f \in fds \ stuck <=> \E h \in gone : Held[h] = f
    BY <1>1, <1>5, <1>6, <1>8, <1>12, <1>13, <1>15
  <1>21. /\ fdmap' \in [Fds -> Objects]
         /\ \A s \in Streams : fdmap'[Fd(s)] = fdmap[Fd(s)]
         /\ Table(fdmap', Held', bridges')
         /\ \A f \in Fds : fdmap'[f] = Closed \/ fdmap'[f] = fdmap[f]
    BY <1>1, <1>3, <1>14, <1>17, <1>19, <1>20, CloseIs
  <1>22. \A s \in Streams : st.redirected[s] => Held'[Saved(s)] # None
    <2> SUFFICES ASSUME NEW s \in Streams, st.redirected[s] PROVE Held'[Saved(s)] # None
      BY Zenon
    <2>1. s \notin closed /\ Saved(s) \in Handles /\ Held[Saved(s)] # None
      BY <1>6, <1>7, Parts, HandleNames, Zenon DEF StreamsSound
    <2> QED
      BY <1>1, <1>12, <1>16, <2>1, Zenon
  <1>23. StreamsSound'
    BY <1>1, <1>11, <1>21, <1>22, StreamsKept, Zenon
  <1>24. ThreadSound'
    BY <1>1, <1>11, <1>21, EofStays, ThreadKept, Parts, Zenon DEF ThreadSound
  <1>25. next \in Pcs /\ Goto(c, next)
    BY Zenon DEF Pcs, CloseSaved
  <1>26. pc' \in [Callers -> Pcs] /\ pc'[c] = next
    BY <1>25, GotoIs, Zenon
  <1>27. Types'
    BY <1>1, <1>11, <1>21, <1>26, Parts, TypesAre, Zenon
  <1>28. SomeRedirected' = SomeRedirected
    BY <1>11, Zenon DEF SomeRedirected
  <1>29. Stage(c)'
    BY <1>1, <1>2, <1>11, <1>26, <1>28, Zenon DEF Stage
  <1> QED
    BY <1>21, <1>23, <1>24, <1>27, <1>29, Assemble, Zenon

LEMMA ShutdownStep ==
    ASSUME StdioConstants, Inv, NEW c \in Callers, Shutdown(c)
    PROVE  Inv'
  <1>1. /\ pc[c] = "shutdown" /\ mutex = c /\ mutex' = c /\ op' = op /\ result' = result
        /\ reader' = reader /\ fdmap' = fdmap /\ bridges' = bridges /\ Stage(c)
        /\ st \in StType /\ Held' = HeldOf(st') /\ Held = HeldOf(st)
    BY Parts, Zenon DEF Shutdown, Holds, Held
  <1>2. (st.active <=> op[c] = "restore") /\ ~SomeRedirected
    BY <1>1, Zenon DEF Stage
  <1>3. PICK failed \in SUBSET Ends :
            /\ shut' = shut \cup {fdmap[f].of : f \in Ends \ failed}
            /\ st' = [st EXCEPT !.wakeProven = (Ends # failed) \/ @]
    BY Zenon DEF Shutdown
  <1>4. \A f \in Ends : fdmap[f].of = bridges /\ bridges \in 1 .. bridges
    <2> SUFFICES ASSUME NEW f \in Ends PROVE fdmap[f].of = bridges /\ bridges \in 1 .. bridges
      BY Zenon
    <2>1. PICK h \in {"read", "write"} : f = Held[h] /\ f # None
      BY EndNames, Zenon DEF Ends
    <2>2. fdmap[f] \in {ReadEnd(bridges), WriteEnd(bridges)} /\ f \in 3 .. MaxFd
      BY <2>1, HeldOk, EndNames, Zenon
    <2>3. fdmap[f] \in Objects
      BY <2>2, Parts DEF Fds, StdioConstants
    <2>4. bridges \in Bridges
      BY <2>2, <2>3 DEF Objects, ReadEnd, WriteEnd, Closed, Original, Streams
    <2> QED
      BY <2>2, <2>4, SMTT(20) DEF Bridges, StdioConstants, ReadEnd, WriteEnd
  <1>5. /\ st' \in StType /\ st'.redirected = st.redirected
        /\ st'.readFd = st.readFd /\ st'.writeFd = st.writeFd
        /\ st'.saved = st.saved /\ st'.deferred = st.deferred
        /\ st'.active = st.active /\ st'.started = st.started /\ st'.thread = st.thread
        /\ st'.wakeProven => (Ends # failed) \/ st.wakeProven
    BY <1>1, <1>3, Zenon DEF StType
  <1>6. shut' \subseteq 1 .. bridges' /\ shut \subseteq shut'
    BY <1>1, <1>3, <1>4, Parts, Zenon
  <1>7. Ends # failed => bridges \in shut'
    BY <1>3, <1>4, Zenon
  <1>8. Held' = Held
    BY <1>1, <1>5, HeldSame, Zenon
  <1>9. Table(fdmap', Held', bridges')
    BY <1>1, <1>8, TableSame, Zenon
  <1>10. StreamsSound' /\ ~SomeRedirected'
    BY <1>1, <1>2, <1>5, StreamsIdle, Zenon
  <1>11. ThreadSound'
    <2>1. ASSUME st.started, st'.wakeProven PROVE Eof(bridges)'
      <3>1. CASE Ends # failed
        BY <1>1, <1>7, <3>1, Zenon DEF Eof
      <3>2. CASE st.wakeProven
        BY <1>1, <1>6, <2>1, <3>2, EofStays, Parts, Zenon DEF ThreadSound
      <3> QED
        BY <1>5, <2>1, <3>1, <3>2, Zenon
    <2> QED
      BY <1>1, <1>5, <2>1, ThreadKept, Zenon
  <1>12. pc' \in [Callers -> Pcs] /\ pc'[c] = "closeWriter"
    BY GotoIs, Zenon DEF Pcs, Shutdown
  <1>13. Types'
    BY <1>1, <1>5, <1>6, <1>12, Parts, TypesAre, Zenon
  <1>14. Stage(c)'
    BY <1>1, <1>2, <1>5, <1>10, <1>12, Zenon DEF Stage
  <1> QED
    BY <1>9, <1>10, <1>11, <1>13, <1>14, Assemble, Zenon

(* With the streams back and nothing deferred, the write end was the last    *)
(* descriptor of the bridge.                                                *)
LEMMA LastWriter ==
    ASSUME StdioConstants, NEW m, NEW held, NEW b, Table(m, held, b), held["write"] = None,
           \A s \in Streams : held[ToRedirect(s)] = None /\ held[ToRestore(s)] = None,
           \A s \in Streams : m[Fd(s)] = Original(s)
    PROVE  \A f \in Fds : m[f] # WriteEnd(b)
  <1> SUFFICES ASSUME NEW f \in Fds, m[f] = WriteEnd(b) PROVE FALSE
    BY Zenon
  <1>1. \A s \in Streams : Original(s) # WriteEnd(b)
    BY Zenon DEF Original, WriteEnd, Streams
  <1>2. f \in 3 .. MaxFd
    BY <1>1 DEF Fds, Fd, Streams, StdioConstants
  <1>3. PICK h \in Handles : held[h] = f
    BY <1>2, Objected, Zenon DEF Table
  <1>4. held[h] # None /\ m[f] \in Allowed(h, b)
    BY <1>2, <1>3 DEF Table, None
  <1>5. h \in {"read", "savedOut", "savedErr"}
    BY <1>4, Zenon DEF Handles, ToRedirect, ToRestore, Streams
  <1> QED
    BY <1>4, <1>5 DEF Allowed, Original, WriteEnd, ReadEnd

LEMMA CloseWriterStep ==
    ASSUME StdioConstants, Inv, NEW c \in Callers, CloseWriter(c)
    PROVE  Inv'
  <1> DEFINE attempt == st.writeFd # None /\ (~st.started \/ st.wakeProven \/ WriterCloseIsFinal)
             proven == st.wakeProven \/ (st.started /\ WriterCloseIsFinal)
             done == IF ~st.started THEN "closeReader" ELSE IF proven THEN "join" ELSE "closeDeferred"
             not == IF ~st.started THEN "closeReader"
                    ELSE IF st.wakeProven THEN "join" ELSE "closeDeferred"
  <1>1. /\ pc[c] = "closeWriter" /\ mutex = c /\ mutex' = c /\ op' = op /\ result' = result
        /\ reader' = reader /\ shut' = shut /\ bridges' = bridges /\ Stage(c)
        /\ st \in StType /\ Held' = HeldOf(st') /\ Held = HeldOf(st)
    BY Parts, Zenon DEF CloseWriter, Holds, BridgeKept, Held
  <1>2. (st.active <=> op[c] = "restore") /\ ~SomeRedirected
    BY <1>1, Zenon DEF Stage
  <1>3. CASE /\ attempt /\ Close({st.writeFd}, {})
             /\ st' = [st EXCEPT !.writeFd = None, !.wakeProven = proven]
             /\ Goto(c, done)
    <2>1. proven \in BOOLEAN /\ None \in Nat
      BY <1>1, StParts, Zenon DEF WriterCloseIsFinal, SomeRedirected, None
    <2>2. /\ st' \in StType /\ st'.redirected = st.redirected
          /\ st'.readFd = st.readFd /\ st'.writeFd = None
          /\ st'.saved = st.saved /\ st'.deferred = st.deferred
          /\ st'.active = st.active /\ st'.started = st.started /\ st'.thread = st.thread
          /\ st'.wakeProven = proven
      BY <1>1, <1>3, <2>1, Zenon DEF StType
    <2>3. /\ "write" \in Handles /\ {"write"} \in SUBSET Handles /\ Held["write"] = st.writeFd
          /\ st.writeFd # None
      BY <1>3, EndNames, Zenon
    <2>4. st.writeFd \in 3 .. MaxFd
      BY <2>3, HeldOk, Zenon
    <2>5. \A h \in Handles : HeldOf(st')[h] = IF h \in {"write"} THEN None ELSE HeldOf(st)[h]
      BY <2>2, Zenon DEF HeldOf, Handles
    <2>6. Held' = Drop(Held, {"write"})
      BY <1>1, <2>5, HeldDropped, Zenon
    <2>7. /\ fdmap' \in [Fds -> Objects]
          /\ \A s \in Streams : fdmap'[Fd(s)] = fdmap[Fd(s)]
          /\ Table(fdmap', Held', bridges')
          /\ \A f \in Fds : fdmap'[f] = Closed \/ fdmap'[f] = fdmap[f]
      <3>1. \A f \in 3 .. MaxFd : f \in {st.writeFd} \ {} <=> \E h \in {"write"} : Held[h] = f
        BY <2>3, Zenon
      <3>2. {st.writeFd} \subseteq 3 .. MaxFd
        BY <2>4, Zenon
      <3> QED
        BY <1>1, <1>3, <2>3, <2>6, <3>1, <3>2, CloseIs, Zenon
    <2>8. StreamsSound' /\ ~SomeRedirected'
      BY <1>2, <2>2, <2>7, StreamsIdle, Zenon
    <2>9. ThreadSound'
      <3>1. ASSUME st.started, st.wakeProven PROVE Eof(bridges)'
        BY <1>1, <2>7, <3>1, EofStays, Parts, Zenon DEF ThreadSound
      <3>2. ASSUME WriterCloseIsFinal PROVE Eof(bridges)'
        <4>1. \A s \in Streams : fdmap'[Fd(s)] = Original(s)
          BY <1>2, <2>7, Parts, Zenon DEF StreamsSound, SomeRedirected
        <4>2. \A s \in Streams : st.deferred[<<s, "redirect">>] = None
                                 /\ st.deferred[<<s, "restore">>] = None
          BY <3>2, Zenon DEF WriterCloseIsFinal, Slots
        <4>3. \A s \in Streams : Held[ToRedirect(s)] = None /\ Held[ToRestore(s)] = None
          BY <4>2, HandleNames, Zenon
        <4>4. \A s \in Streams : Held'[ToRedirect(s)] = None /\ Held'[ToRestore(s)] = None
          BY <1>1, <2>5, <4>3, HandleNames, Zenon
        <4>5. Held'["write"] = None
          BY <1>1, <2>3, <2>5, Zenon
        <4>6. \A f \in Fds : fdmap'[f] # WriteEnd(bridges')
          BY <2>7, <4>1, <4>4, <4>5, LastWriter, Zenon
        <4> QED
          BY <4>6, Zenon DEF Eof
      <3>3. st.started /\ st'.wakeProven => Eof(bridges)'
        BY <2>2, <3>1, <3>2, Zenon
      <3> QED
        BY <1>1, <2>2, <3>3, ThreadKept, Zenon
    <2>10. done \in Pcs
      BY Zenon DEF Pcs
    <2>11. pc' \in [Callers -> Pcs] /\ pc'[c] = done
      BY <1>3, <2>10, GotoIs, Zenon
    <2>12. Types'
      BY <1>1, <2>2, <2>7, <2>11, Parts, TypesAre, Zenon
    <2>13. Stage(c)'
      BY <1>1, <1>2, <2>2, <2>8, <2>11, Zenon DEF Stage
    <2> QED
      BY <2>7, <2>8, <2>9, <2>12, <2>13, Assemble, Zenon
  <1>4. CASE Goto(c, not) /\ fdmap' = fdmap /\ st' = st
    <2>1. not \in Pcs
      BY Zenon DEF Pcs
    <2>2. pc' \in [Callers -> Pcs] /\ pc'[c] = not
      BY <1>4, <2>1, GotoIs, Zenon
    <2>3. Stage(c)'
      BY <1>1, <1>2, <1>4, <2>2, Zenon DEF Stage, SomeRedirected
    <2> QED
      BY <1>1, <1>4, <2>2, <2>3, Parts, CallerMoves, Zenon
  <1> QED
    BY <1>3, <1>4, Zenon DEF CloseWriter

LEMMA JoinStep ==
    ASSUME StdioConstants, Inv, NEW c \in Callers, Join(c)
    PROVE  Inv'
  <1>1. /\ pc[c] = "join" /\ mutex = c /\ mutex' = c /\ op' = op /\ result' = result
        /\ fdmap' = fdmap /\ shut' = shut /\ bridges' = bridges /\ Stage(c)
        /\ st \in StType /\ Held' = HeldOf(st') /\ Held = HeldOf(st)
    BY Parts, Zenon DEF Join, Holds, Held
  <1>2. (st.active <=> op[c] = "restore") /\ ~SomeRedirected /\ st.started
    BY <1>1, Zenon DEF Stage
  <1>3. st.thread = bridges /\ bridges \in Bridges
    BY <1>2, Parts DEF ThreadSound, Bridges, StdioConstants
  <1>4. CASE /\ reader' = [reader EXCEPT ![st.thread] = "none"]
             /\ st' = [st EXCEPT !.started = FALSE, !.wakeProven = FALSE]
             /\ Goto(c, "closeReader")
    <2>1. /\ st' \in StType /\ st'.redirected = st.redirected
          /\ st'.readFd = st.readFd /\ st'.writeFd = st.writeFd
          /\ st'.saved = st.saved /\ st'.deferred = st.deferred
          /\ st'.active = st.active /\ ~st'.started
      BY <1>1, <1>4, Zenon DEF StType
    <2>2. Held' = Held
      BY <1>1, <2>1, HeldSame, Zenon
    <2>3. Table(fdmap', Held', bridges')
      BY <1>1, <2>2, TableSame, Zenon
    <2>4. StreamsSound' /\ ~SomeRedirected'
      BY <1>1, <1>2, <2>1, StreamsIdle, Zenon
    <2>5. /\ reader' \in [Bridges -> {"none", "starting", "reading", "exited"}]
          /\ reader'[st.thread] = "none"
          /\ \A b \in Bridges \ {st.thread} : reader'[b] = reader[b]
      BY <1>3, <1>4, Parts, Zenon
    <2>6. ThreadSound'
      BY <2>1, <2>5, Parts DEF ThreadSound
    <2>7. pc' \in [Callers -> Pcs] /\ pc'[c] = "closeReader"
      BY <1>4, GotoIs, Zenon DEF Pcs
    <2>8. Types'
      BY <1>1, <2>1, <2>5, <2>7, Parts, TypesAre, Zenon
    <2>9. Stage(c)'
      BY <1>1, <1>2, <2>1, <2>4, <2>7, Zenon DEF Stage
    <2> QED
      BY <2>3, <2>4, <2>6, <2>8, <2>9, Assemble, Zenon
  <1>5. CASE Goto(c, "closeDeferred") /\ reader' = reader /\ st' = st
    <2>1. pc' \in [Callers -> Pcs] /\ pc'[c] = "closeDeferred"
      BY <1>5, GotoIs, Zenon DEF Pcs
    <2>2. Stage(c)'
      BY <1>1, <1>2, <1>5, <2>1, Zenon DEF Stage
    <2> QED
      BY <1>1, <1>5, <2>1, <2>2, Parts, CallerMoves, Zenon
  <1> QED
    BY <1>4, <1>5, Zenon DEF Join

LEMMA CloseReaderStep ==
    ASSUME StdioConstants, Inv, NEW c \in Callers, CloseReader(c)
    PROVE  Inv'
  <1> DEFINE fds == {st.readFd} \ {None}
  <1>1. /\ pc[c] = "closeReader" /\ mutex = c /\ mutex' = c /\ op' = op /\ result' = result
        /\ reader' = reader /\ shut' = shut /\ bridges' = bridges /\ Stage(c)
        /\ st \in StType /\ Held' = HeldOf(st') /\ Held = HeldOf(st)
    BY Parts, Zenon DEF CloseReader, Holds, BridgeKept, Held
  <1>2. (st.active <=> op[c] = "restore") /\ ~SomeRedirected /\ ~st.started
    BY <1>1, Zenon DEF Stage
  <1>3. PICK stuck \in SUBSET fds :
            /\ Close(fds, stuck)
            /\ st' = [st EXCEPT !.readFd = IF stuck = {} THEN None ELSE @,
                                !.ready = FALSE, !.wakeProven = FALSE]
    BY Zenon DEF CloseReader
  <1> DEFINE gone == IF stuck = {} THEN {"read"} ELSE {}
  <1>4. None \in Nat /\ st.readFd \in Nat
    BY <1>1, StParts, Zenon DEF None
  <1>5. /\ st' \in StType /\ st'.redirected = st.redirected
        /\ st'.readFd = (IF stuck = {} THEN None ELSE st.readFd) /\ st'.writeFd = st.writeFd
        /\ st'.saved = st.saved /\ st'.deferred = st.deferred
        /\ st'.active = st.active /\ st'.started = st.started /\ st'.thread = st.thread
    BY <1>1, <1>3, <1>4, Zenon DEF StType
  <1>6. "read" \in Handles /\ gone \in SUBSET Handles /\ Held["read"] = st.readFd
    BY EndNames, Zenon
  <1>7. \A h \in Handles : HeldOf(st')[h] = IF h \in gone THEN None ELSE HeldOf(st)[h]
    BY <1>5, Zenon DEF HeldOf, Handles
  <1>8. Held' = Drop(Held, gone)
    BY <1>1, <1>7, HeldDropped, SMTT(20)
  <1>9. fds \subseteq 3 .. MaxFd
    BY <1>6, HeldOk, Zenon
  <1>10. \A f \in 3 .. MaxFd : f \in fds \ stuck <=> \E h \in gone : Held[h] = f
    <2>1. \A f \in 3 .. MaxFd : f # None
      BY DEF None
    <2>2. CASE stuck = {}
      BY <1>6, <2>1, <2>2, Zenon
    <2>3. CASE stuck # {}
      <3>1. fds \ stuck = {}
        BY <2>3, Zenon
      <3> QED
        BY <2>3, <3>1, Zenon
    <2> QED
      BY <2>2, <2>3, Zenon
  <1>11. /\ fdmap' \in [Fds -> Objects]
         /\ \A s \in Streams : fdmap'[Fd(s)] = fdmap[Fd(s)]
         /\ Table(fdmap', Held', bridges')
    <2> HIDE DEF fds, gone
    <2> QED
      BY <1>1, <1>3, <1>6, <1>8, <1>9, <1>10, CloseIs, Zenon
  <1>12. StreamsSound' /\ ~SomeRedirected'
    BY <1>2, <1>5, <1>11, StreamsIdle, Zenon
  <1>13. ThreadSound'
    BY <1>1, <1>2, <1>5, ThreadNone, Zenon
  <1>14. pc' \in [Callers -> Pcs] /\ pc'[c] = "closeDeferred"
    BY GotoIs, Zenon DEF Pcs, CloseReader
  <1>15. Types'
    BY <1>1, <1>5, <1>11, <1>14, Parts, TypesAre, Zenon
  <1>16. Stage(c)'
    BY <1>1, <1>2, <1>5, <1>14, Zenon DEF Stage
  <1> QED
    BY <1>11, <1>12, <1>13, <1>15, <1>16, Assemble, Zenon

(* Every descriptor of stdio_state is held, and the other way round. *)
LEMMA OwnedIs ==
    ASSUME NEW t
    PROVE  OwnedFds(t) = {HeldOf(t)[h] : h \in Handles} \ {None}
  <1>1. \A f : f \in OwnedFds(t) => \E h \in Handles : HeldOf(t)[h] = f
    <2> SUFFICES ASSUME NEW f \in OwnedFds(t) PROVE \E h \in Handles : HeldOf(t)[h] = f
      BY Zenon
    <2>1. \/ f = t.readFd \/ f = t.writeFd
          \/ f = t.saved["stdout"] \/ f = t.saved["stderr"]
          \/ \E d \in Slots : f = t.deferred[d]
      BY Zenon DEF OwnedFds, Streams
    <2>2. ASSUME NEW d \in Slots
          PROVE  d \in {<<"stdout", "redirect">>, <<"stderr", "redirect">>,
                        <<"stdout", "restore">>, <<"stderr", "restore">>}
      BY DEF Slots, Streams
    <2>3. \/ f = t.readFd \/ f = t.writeFd
          \/ f = t.saved["stdout"] \/ f = t.saved["stderr"]
          \/ f = t.deferred[<<"stdout", "redirect">>] \/ f = t.deferred[<<"stderr", "redirect">>]
          \/ f = t.deferred[<<"stdout", "restore">>] \/ f = t.deferred[<<"stderr", "restore">>]
      BY <2>1, <2>2, Zenon
    <2> QED
      BY <2>3, Zenon DEF HeldOf, Handles
  <1>2. \A h \in Handles : HeldOf(t)[h] # None => HeldOf(t)[h] \in OwnedFds(t)
    BY Zenon DEF HeldOf, Handles, OwnedFds, Streams, Slots
  <1>3. None \notin OwnedFds(t)
    BY Zenon DEF OwnedFds
  <1> QED
    BY <1>1, <1>2, <1>3, Zenon

(* The deferred-close slots and their handles. *)
LEMMA SlotsAre ==
    ASSUME NEW t, NEW u
    PROVE  /\ \A d \in Slots : \E h \in Late : /\ HeldOf(t)[h] = t.deferred[d]
                                               /\ HeldOf(u)[h] = u.deferred[d]
           /\ \A h \in Late : \E d \in Slots : /\ HeldOf(t)[h] = t.deferred[d]
                                               /\ HeldOf(u)[h] = u.deferred[d]
  <1>1. Slots = {<<"stdout", "redirect">>, <<"stderr", "redirect">>,
                 <<"stdout", "restore">>, <<"stderr", "restore">>}
    BY DEF Slots, Streams
  <1>2. ASSUME NEW v
        PROVE  /\ HeldOf(v)["redirectOut"] = v.deferred[<<"stdout", "redirect">>]
               /\ HeldOf(v)["redirectErr"] = v.deferred[<<"stderr", "redirect">>]
               /\ HeldOf(v)["restoreOut"] = v.deferred[<<"stdout", "restore">>]
               /\ HeldOf(v)["restoreErr"] = v.deferred[<<"stderr", "restore">>]
    BY HeldIs, Zenon
  <1>3. ASSUME NEW d \in Slots
        PROVE  \E h \in Late : HeldOf(t)[h] = t.deferred[d] /\ HeldOf(u)[h] = u.deferred[d]
    <2>1. CASE d = <<"stdout", "redirect">>
      BY <1>2, <2>1, Zenon DEF Late
    <2>2. CASE d = <<"stderr", "redirect">>
      BY <1>2, <2>2, Zenon DEF Late
    <2>3. CASE d = <<"stdout", "restore">>
      BY <1>2, <2>3, Zenon DEF Late
    <2>4. CASE d = <<"stderr", "restore">>
      BY <1>2, <2>4, Zenon DEF Late
    <2> QED
      BY <1>1, <2>1, <2>2, <2>3, <2>4, Zenon
  <1>4. ASSUME NEW h \in Late
        PROVE  \E d \in Slots : HeldOf(t)[h] = t.deferred[d] /\ HeldOf(u)[h] = u.deferred[d]
    <2>1. CASE h = "redirectOut"
      BY <1>1, <1>2, <2>1, Zenon
    <2>2. CASE h = "redirectErr"
      BY <1>1, <1>2, <2>2, Zenon
    <2>3. CASE h = "restoreOut"
      BY <1>1, <1>2, <2>3, Zenon
    <2>4. CASE h = "restoreErr"
      BY <1>1, <1>2, <2>4, Zenon
    <2> QED
      BY <2>1, <2>2, <2>3, <2>4, Zenon DEF Late
  <1> QED
    BY <1>3, <1>4, Zenon

LEMMA CloseDeferredStep ==
    ASSUME StdioConstants, Inv, NEW c \in Callers, CloseDeferred(c)
    PROVE  Inv'
  <1> DEFINE fds == {st.deferred[d] : d \in Slots} \ {None}
             After(stuck) == [st EXCEPT !.deferred =
                                 [d \in Slots |-> IF st.deferred[d] \in stuck
                                                  THEN st.deferred[d] ELSE None]]
  <1>1. /\ pc[c] = "closeDeferred" /\ mutex = c /\ op' = op
        /\ reader' = reader /\ shut' = shut /\ bridges' = bridges /\ Stage(c)
        /\ st \in StType /\ Held' = HeldOf(st') /\ Held = HeldOf(st)
    BY Parts, Zenon DEF CloseDeferred, Holds, BridgeKept, Held
  <1>2. PICK stuck \in SUBSET fds :
            /\ Close(fds, stuck)
            /\ st' = [After(stuck) EXCEPT !.active = HasOwnedResources(After(stuck))]
            /\ Return(c, IF op[c] = "restore" /\ ~HasOwnedResources(After(stuck))
                         THEN "ok" ELSE "error")
    BY Zenon DEF CloseDeferred
  <1> DEFINE after == After(stuck)
             gone == {h \in Late : Held[h] \notin stuck}
  <1>3. /\ st.deferred \in [Slots -> Nat] /\ None \in Nat
    BY <1>1, StParts, Zenon DEF None
  <1>4. /\ after \in StType /\ after.redirected = st.redirected
        /\ after.readFd = st.readFd /\ after.writeFd = st.writeFd /\ after.saved = st.saved
        /\ after.deferred = [d \in Slots |-> IF st.deferred[d] \in stuck
                                             THEN st.deferred[d] ELSE None]
        /\ after.started = st.started /\ after.thread = st.thread
        /\ after.wakeProven = st.wakeProven
    BY <1>1, <1>3, Zenon DEF StType
  <1>5. st' = [after EXCEPT !.active = HasOwnedResources(after)]
    BY <1>2, Zenon
  <1> HIDE DEF After, after
  <1>6. HasOwnedResources(after) \in BOOLEAN
    BY <1>4, Zenon DEF HasOwnedResources, StType
  <1>7. /\ st' \in StType /\ st'.redirected = st.redirected
        /\ st'.readFd = st.readFd /\ st'.writeFd = st.writeFd /\ st'.saved = st.saved
        /\ st'.deferred = [d \in Slots |-> IF st.deferred[d] \in stuck
                                           THEN st.deferred[d] ELSE None]
        /\ st'.started = st.started /\ st'.thread = st.thread
        /\ st'.wakeProven = st.wakeProven /\ st'.active = HasOwnedResources(after)
    BY <1>4, <1>5, <1>6, Zenon DEF StType
  <1>8. HeldOf(after) = HeldOf(st')
    BY <1>4, <1>7, HeldSame, ZenonT(60)
  <1>9. gone \in SUBSET Handles /\ \A h \in Late : h \in Handles
    BY Zenon DEF Late, Handles
  <1>10. \A d \in Slots : st'.deferred[d] = IF st.deferred[d] \in stuck THEN st.deferred[d] ELSE None
    BY <1>7, Zenon
  <1>11. /\ \A d \in Slots : \E h \in Late : /\ HeldOf(st)[h] = st.deferred[d]
                                             /\ HeldOf(st')[h] = st'.deferred[d]
         /\ \A h \in Late : \E d \in Slots : /\ HeldOf(st)[h] = st.deferred[d]
                                             /\ HeldOf(st')[h] = st'.deferred[d]
    <2>1. ASSUME NEW t, NEW u, t = st, u = st'
          PROVE  /\ \A d \in Slots : \E h \in Late : /\ HeldOf(t)[h] = t.deferred[d]
                                                     /\ HeldOf(u)[h] = u.deferred[d]
                 /\ \A h \in Late : \E d \in Slots : /\ HeldOf(t)[h] = t.deferred[d]
                                                     /\ HeldOf(u)[h] = u.deferred[d]
      BY SlotsAre, SMTT(20)
    <2> QED
      BY <2>1, SMTT(20)
  <1>13. \A h \in Handles : HeldOf(st')[h] = IF h \in gone THEN None ELSE HeldOf(st)[h]
    <2> SUFFICES ASSUME NEW h \in Handles
                 PROVE  HeldOf(st')[h] = IF h \in gone THEN None ELSE HeldOf(st)[h]
      BY Zenon
    <2>1. CASE h \in Late
      BY <1>1, <1>10, <1>11, <2>1, SMTT(20)
    <2>2. CASE h \notin Late
      BY <1>7, <2>2, Zenon DEF HeldOf, Handles, Late
    <2> QED
      BY <2>1, <2>2, Zenon
  <1>14. Held' = Drop(Held, gone)
    BY <1>1, <1>13, HeldDropped, Zenon
  <1>15. fds \subseteq 3 .. MaxFd
    BY <1>1, <1>9, <1>11, HeldOk, SMTT(20)
  <1>16. \A f \in 3 .. MaxFd : f \in fds \ stuck <=> \E h \in gone : Held[h] = f
    <2>1. \A f \in 3 .. MaxFd : f # None
      BY DEF None
    <2>2. \A f \in 3 .. MaxFd : f \in fds <=> \E h \in Late : Held[h] = f
      BY <1>1, <1>11, <2>1, SMTT(20)
    <2> QED
      BY <2>2, Zenon
  <1>17. /\ fdmap' \in [Fds -> Objects]
         /\ \A s \in Streams : fdmap'[Fd(s)] = fdmap[Fd(s)]
         /\ Table(fdmap', Held', bridges')
         /\ \A f \in Fds : fdmap'[f] = Closed \/ fdmap'[f] = fdmap[f]
    <2> HIDE DEF fds, gone
    <2> QED
      BY <1>1, <1>2, <1>9, <1>14, <1>15, <1>16, CloseIs, Zenon
  <1>18. \A s \in Streams : Held'[Saved(s)] = Held[Saved(s)]
    <2>1. \A s \in Streams : Saved(s) \in Handles /\ Saved(s) \notin Late
      BY Zenon DEF Saved, Handles, Late
    <2> QED
      BY <1>1, <1>13, <2>1, Zenon
  <1>19. StreamsSound'
    BY <1>1, <1>7, <1>17, <1>18, StreamsKept, Parts, SMTT(20) DEF StreamsSound
  <1>20. ThreadSound'
    BY <1>1, <1>7, <1>17, EofStays, ThreadKept, Parts, Zenon DEF ThreadSound
  <1>21. /\ pc' \in [Callers -> Pcs] /\ pc'[c] = "idle" /\ mutex' = NoCaller
         /\ result' \in [Callers -> {"ok", "error"}]
         /\ result'[c] = "ok" => ~HasOwnedResources(after)
    BY <1>2, GotoIs, Parts, Zenon DEF Return, Pcs, after
  <1>22. Types'
    BY <1>1, <1>7, <1>17, <1>21, Parts, TypesAre, Zenon
  <1>23. ASSUME ~HasOwnedResources(after)
         PROVE  ~SomeRedirected' /\ ~st'.started /\ NoneHeld(Handles)'
    <2>1. ~SomeRedirected' /\ ~st'.started /\ OwnedFds(after) = {}
      BY <1>4, <1>7, <1>23, Zenon DEF HasOwnedResources, SomeRedirected
    <2>2. \A h \in Handles : HeldOf(after)[h] = None
      BY <2>1, OwnedIs, Zenon
    <2> QED
      BY <1>1, <1>8, <2>1, <2>2, Zenon DEF NoneHeld
  <1>24. Stage(c)'
    BY <1>7, <1>21, <1>23, Zenon DEF Stage, Untouched
  <1> QED
    BY <1>17, <1>19, <1>20, <1>22, <1>24, Assemble, Zenon

LEMMA ReaderMoves ==
    ASSUME StdioConstants, Inv, NEW b \in Bridges, NEW r \in {"reading", "exited"},
           reader[b] # "none", reader' = [reader EXCEPT ![b] = r],
           UNCHANGED <<fdmap, mutex, pc, op, shut, bridges, result>>,
           st' \in StType, st'.redirected = st.redirected,
           st'.readFd = st.readFd, st'.writeFd = st.writeFd,
           st'.saved = st.saved, st'.deferred = st.deferred, st'.active = st.active,
           st'.started = st.started, st'.thread = st.thread, st'.wakeProven = st.wakeProven
    PROVE  Inv'
  <1>1. Held' = HeldOf(st') /\ Held = HeldOf(st)
    BY Zenon DEF Held
  <1>2. Held' = Held
    BY <1>1, HeldSame, Zenon
  <1>3. Table(fdmap', Held', bridges')
    BY <1>2, TableSame, Zenon
  <1>4. StreamsSound'
    BY <1>2, Parts, Zenon DEF StreamsSound
  <1>5. /\ reader' \in [Bridges -> {"none", "starting", "reading", "exited"}]
        /\ \A d \in Bridges : reader'[d] # "none" => reader[d] # "none"
    BY Parts, Zenon
  <1>6. ThreadSound'
    BY <1>5, Parts, Zenon DEF ThreadSound, Eof
  <1>7. Types'
    BY <1>5, Parts, TypesAre, Zenon
  <1>8. PICK c \in Callers : TRUE
    BY Zenon DEF StdioConstants
  <1>9. Stage(c)
    BY Parts, Zenon
  <1>10. /\ SomeRedirected' = SomeRedirected /\ Untouched' = Untouched
         /\ \A hs : NoneHeld(hs)' = NoneHeld(hs)
    BY <1>2, Zenon DEF SomeRedirected, Untouched, NoneHeld
  <1>11. Stage(c)'
    BY <1>2, <1>9, <1>10 DEF Stage
  <1> QED
    BY <1>3, <1>4, <1>6, <1>7, <1>11, Assemble, Zenon

LEMMA ReaderSteps ==
    ASSUME StdioConstants, Inv, NEW b \in Bridges, ReaderStep(b)
    PROVE  Inv'
  <1>1. CASE ReaderReady(b)
    <2>1. /\ st' \in StType /\ st'.redirected = st.redirected
          /\ st'.readFd = st.readFd /\ st'.writeFd = st.writeFd
          /\ st'.saved = st.saved /\ st'.deferred = st.deferred /\ st'.active = st.active
          /\ st'.started = st.started /\ st'.thread = st.thread
          /\ st'.wakeProven = st.wakeProven
      BY <1>1, Parts, Zenon DEF ReaderReady, StType
    <2>2. /\ reader[b] # "none" /\ reader' = [reader EXCEPT ![b] = "reading"]
          /\ UNCHANGED <<fdmap, mutex, pc, op, shut, bridges, result>>
      BY <1>1, Zenon DEF ReaderReady
    <2> QED
      BY <2>1, <2>2, ReaderMoves, Zenon
  <1>2. CASE ReaderExit(b)
    <2>1. /\ reader[b] # "none" /\ reader' = [reader EXCEPT ![b] = "exited"]
          /\ UNCHANGED <<fdmap, mutex, pc, op, shut, bridges, result>> /\ st' = st
          /\ st \in StType
      BY <1>2, Parts, Zenon DEF ReaderExit
    <2> QED
      BY <2>1, ReaderMoves, Zenon
  <1> QED
    BY <1>1, <1>2, Zenon DEF ReaderStep

LEMMA CallerSteps ==
    ASSUME StdioConstants, Inv, NEW c \in Callers, CallerStep(c)
    PROVE  Inv'
  <1>1. /\ "stdout" \in Streams /\ "stderr" \in Streams /\ "saveErr" \in Pcs /\ "bridge" \in Pcs
        /\ "moveErr" \in Pcs /\ "moved" \in Pcs /\ "undoErr" \in Pcs /\ "undone" \in Pcs
    BY Zenon DEF Streams, Pcs
  <1>2. CASE Save(c, "saveOut", "stdout", "saveErr") \/ Save(c, "saveErr", "stderr", "bridge")
    BY <1>1, <1>2, SaveStep, Zenon
  <1>3. CASE Move(c, "moveOut", "stdout", "moveErr") \/ Move(c, "moveErr", "stderr", "moved")
    BY <1>1, <1>3, MoveStep, Zenon
  <1>4. CASE Undo(c, "undoOut", "stdout", "undoErr") \/ Undo(c, "undoErr", "stderr", "undone")
    BY <1>1, <1>4, UndoStep, Zenon
  <1>5. CASE RedirectCall(c) \/ MakeBridge(c) \/ CreateThread(c) \/ WaitReady(c) \/ RedirectDone(c)
    BY <1>5, RedirectCallStep, MakeBridgeStep, CreateThreadStep, WaitReadyStep, RedirectDoneStep, Zenon
  <1>6. CASE RestoreCall(c) \/ Undone(c) \/ CloseSaved(c) \/ Shutdown(c) \/ CloseWriter(c)
    BY <1>6, RestoreCallStep, UndoneStep, CloseSavedStep, ShutdownStep, CloseWriterStep, Zenon
  <1>7. CASE Join(c) \/ CloseReader(c) \/ CloseDeferred(c)
    BY <1>7, JoinStep, CloseReaderStep, CloseDeferredStep, Zenon
  <1> QED
    BY <1>2, <1>3, <1>4, <1>5, <1>6, <1>7, Zenon DEF CallerStep

LEMMA InitInv ==
    ASSUME StdioConstants, Init
    PROVE  Inv
  <1>1. st \in StType
    BY SMTT(20) DEF Init, StType, None, StdioConstants
  <1>2. /\ st.readFd = None /\ st.writeFd = None /\ ~st.active /\ ~st.started
        /\ \A s \in Streams : st.saved[s] = None /\ ~st.redirected[s]
        /\ \A d \in Slots : st.deferred[d] = None
    BY Zenon DEF Init
  <1>3. OwnedFds(st) = {}
    BY <1>2, Zenon DEF OwnedFds
  <1>4. \A h \in Handles : Held[h] = None
    BY <1>3, OwnedIs, Zenon DEF Held
  <1>5. Held \in [Handles -> {None} \cup 3 .. MaxFd]
    BY <1>4, HeldIs, Zenon DEF Held
  <1>6. /\ fdmap \in [Fds -> Objects]
        /\ \A f \in 3 .. MaxFd : fdmap[f] = Closed
        /\ \A s \in Streams : fdmap[Fd(s)] = Original(s)
    BY SMTT(20) DEF Init, Objects, Streams, Fd, Fds, StdioConstants
  <1>7. Table(fdmap, Held, bridges)
    BY <1>4, <1>5, <1>6, Zenon DEF Table
  <1>8. StreamsSound
    BY <1>2, <1>6, Zenon DEF StreamsSound
  <1>9. ThreadSound
    BY <1>2, Zenon DEF ThreadSound, Init
  <1>10. Types
    BY <1>1, <1>6, SMTT(20) DEF Types, Init, Pcs, StdioConstants
  <1>11. \A c \in Callers : Stage(c)
    BY <1>2, <1>4, Zenon DEF Stage, Init, Untouched, NoneHeld, SomeRedirected
  <1> QED
    BY <1>7, <1>8, <1>9, <1>10, <1>11, Zenon DEF Inv

LEMMA StutterInv ==
    ASSUME Inv, UNCHANGED vars
    PROVE  Inv'
  <1>1. /\ Held' = Held /\ SomeRedirected' = SomeRedirected /\ Untouched' = Untouched
        /\ \A hs : NoneHeld(hs)' = NoneHeld(hs)
    BY Zenon DEF vars, Held, SomeRedirected, Untouched, NoneHeld
  <1>2. Table(fdmap', Held', bridges')
    BY <1>1, TableSame, Zenon DEF vars
  <1>3. Types' /\ StreamsSound' /\ ThreadSound'
    BY <1>1, Parts, Zenon DEF vars, Types, StreamsSound, ThreadSound, Eof
  <1>4. ASSUME NEW c \in Callers PROVE Stage(c)'
    <2>1. Stage(c)
      BY Parts, Zenon
    <2> QED
      BY <1>1, <2>1 DEF vars, Stage
  <1> QED
    BY <1>2, <1>3, <1>4, Zenon DEF Inv, vars

(* Inv holds in every reachable state. *)
THEOREM Invariance == ASSUME StdioConstants PROVE Spec => []Inv
  <1>1. Init => Inv
    BY InitInv, Zenon
  <1>2. Inv /\ [Next]_vars => Inv'
    BY CallerSteps, ReaderSteps, StutterInv, Zenon DEF Next
  <1> QED
    BY <1>1, <1>2, PTL DEF Spec

LEMMA InvJoin ==
    ASSUME Inv
    PROVE  JoinNeverBlocks
  <1> SUFFICES ASSUME NEW c \in Callers, pc[c] = "join" PROVE Eof(st.thread)
    BY Zenon DEF JoinNeverBlocks
  <1>1. Stage(c)
    BY Parts, Zenon
  <1>2. st.started /\ st.wakeProven
    BY <1>1, Zenon DEF Stage
  <1> QED
    BY <1>2, Parts, Zenon DEF ThreadSound

LEMMA InvBridge ==
    ASSUME StdioConstants, Inv
    PROVE  BridgeSound
  <1>1. BridgeKeptWhileNeeded
    <2> SUFFICES ASSUME NEW s \in Streams, fdmap[Fd(s)] # Original(s)
                 PROVE  /\ st.saved[s] # None /\ fdmap[st.saved[s]] = Original(s)
                        /\ fdmap[Fd(s)].of \notin shut
      BY Zenon DEF BridgeKeptWhileNeeded
    <2>1. /\ fdmap[Fd(s)] = WriteEnd(bridges) /\ bridges \notin shut
          /\ Held[Saved(s)] # None
      BY Parts, Zenon DEF StreamsSound
    <2>2. /\ Saved(s) \in Handles /\ Held[Saved(s)] = st.saved[s]
          /\ Allowed(Saved(s), bridges) = {Original(s)}
      BY HandleNames, Zenon
    <2>3. fdmap[st.saved[s]] = Original(s)
      BY <2>1, <2>2, HeldOk, Zenon
    <2> QED
      BY <2>1, <2>2, <2>3, SMTT(20) DEF WriteEnd
  <1>2. NothingLost
    <2> SUFFICES ASSUME \A c \in Callers : pc[c] = "idle"
                 PROVE  /\ {f \in Fds : fdmap[f] # Closed} = {1, 2} \cup OwnedFds(st)
                        /\ \A b \in Bridges : reader[b] # "none" => st.started /\ st.thread = b
                        /\ ~st.active => OwnedFds(st) = {} /\ ~st.started
      BY Zenon DEF NothingLost
    <2>1. OwnedFds(st) = {Held[h] : h \in Handles} \ {None}
      BY OwnedIs, Zenon DEF Held
    <2>2. \A f \in Fds : f \in {1, 2} \/ f \in 3 .. MaxFd
      BY DEF Fds, StdioConstants
    <2>3. fdmap[1] # Closed /\ fdmap[2] # Closed /\ 1 \in Fds /\ 2 \in Fds
      BY FdIs, Zenon DEF Fd, Streams
    <2>4. \A f \in 3 .. MaxFd : f \in Fds /\ (fdmap[f] # Closed <=> f \in OwnedFds(st))
      <3>1. ASSUME NEW f \in 3 .. MaxFd, fdmap[f] # Closed PROVE f \in OwnedFds(st)
        <4>1. PICK h \in Handles : Held[h] = f
          BY <3>1, Parts, Zenon DEF Table
        <4>2. f # None
          BY DEF None
        <4> QED
          BY <2>1, <4>1, <4>2, Zenon
      <3>2. ASSUME NEW f \in 3 .. MaxFd, f \in OwnedFds(st) PROVE fdmap[f] # Closed
        <4>1. PICK h \in Handles : Held[h] = f /\ Held[h] # None
          BY <2>1, <3>2, Zenon
        <4>2. fdmap[f] \in Allowed(h, bridges)
          BY <4>1, HeldOk, Zenon
        <4> QED
          BY <4>2, Objected
      <3>3. 3 .. MaxFd \subseteq Fds
        BY DEF Fds, StdioConstants
      <3> QED
        BY <3>1, <3>2, <3>3, Zenon
    <2>5. OwnedFds(st) \subseteq 3 .. MaxFd
      BY <2>1, HeldOk, Zenon
    <2>6. {f \in Fds : fdmap[f] # Closed} = {1, 2} \cup OwnedFds(st)
      BY <2>2, <2>3, <2>4, <2>5, Zenon
    <2>7. ~st.active => OwnedFds(st) = {} /\ ~st.started
      <3>1. PICK c \in Callers : Stage(c)
        BY Parts, Zenon DEF StdioConstants
      <3> QED
        BY <2>1, <3>1, Zenon DEF Stage, Untouched, NoneHeld
    <2> QED
      BY <2>6, <2>7, Parts, Zenon DEF ThreadSound
  <1> QED
    BY <1>1, <1>2, Zenon DEF BridgeSound

LEMMA InvRestored ==
    ASSUME Inv
    PROVE  RestoreRestores
  <1> SUFFICES ASSUME NEW c \in Callers, pc[c] = "idle", op[c] = "restore", result[c] = "ok",
                      NEW s \in Streams
               PROVE  fdmap[Fd(s)] = Original(s)
    BY Zenon DEF RestoreRestores
  <1>1. Stage(c)
    BY Parts, Zenon
  <1>2. ~st.redirected[s]
    BY <1>1, Zenon DEF Stage, SomeRedirected
  <1> QED
    BY <1>2, Parts, Zenon DEF StreamsSound

(* pthread_join is called only when the capture thread has left or its read  *)
(* is sure to return, whichever shutdown and close calls failed before.      *)
THEOREM JoinReturns == ASSUME StdioConstants PROVE Spec => []JoinNeverBlocks
  <1>1. Inv => JoinNeverBlocks
    BY InvJoin, Zenon
  <1> QED
    BY <1>1, Invariance, PTL

(* Whatever calls fail, a stream that writes to the bridge has its backup    *)
(* and a live bridge, and between calls every open descriptor and every      *)
(* thread is one that stdio_state still knows.                              *)
THEOREM NothingStranded == ASSUME StdioConstants PROVE Spec => []BridgeSound
  <1>1. StdioConstants /\ Inv => BridgeSound
    BY InvBridge, Zenon
  <1> QED
    BY <1>1, Invariance, PTL

(* After a uvdb_restore_stdio that returned 0 both streams are the original  *)
(* ones.                                                                    *)
THEOREM Restored == ASSUME StdioConstants PROVE Spec => []RestoreRestores
  <1>1. Inv => RestoreRestores
    BY InvRestored, Zenon
  <1> QED
    BY <1>1, Invariance, PTL

=============================================================================
