------------------------- MODULE PmuProfilerProofs -------------------------
(***************************************************************************)
(* What the PMU profiler took it gives back and what it reports as done is  *)
(* done, for any number of threads, opens and faults.                       *)
(***************************************************************************)
EXTENDS PmuProfiler, TLAPS

(* The engine: a register that was changed is recorded, a configuration is  *)
(* only in flight while the selector is not in doubt, and an engine that is  *)
(* not started owes nothing.                                                 *)
Sound(g) ==
    /\ g \in Engine
    /\ ~g.need => g.lane = "base" /\ g.ctl = "base"
    /\ g.sel # "base" => g.need \/ g.selNeed
EInv(g) ==
    /\ Sound(g)
    /\ g.infl = "configure" /\ ~g.done => ~g.selNeed
    /\ ~g.started => g.infl = "none" /\ ~g.need /\ ~g.selNeed

(* Nothing of a session is left in the engine; nothing at all is. *)
Quiet(g) == ~g.need /\ g.infl \in {"none", "snapshot", "selector"}
Clean(g) == g.infl = "none" /\ ~g.need /\ ~g.selNeed

WFields == {"g", "s", "b", "t", "n"}
IsWorld(w) == w = [f \in WFields |-> w[f]]
TFields == {"st", "owner", "gen", "next", "real", "token", "attempted", "proven", "idValid",
            "uncertain"}
IsTransport(t) == t = [f \in TFields |-> t[f]]

(* The session owes what the engine has not given back; the bridge has the   *)
(* lease while it does.                                                      *)
SInv(w) ==
    /\ IsWorld(w) /\ EInv(w.g) /\ w.s \in Session
    /\ w.s.st = "empty" => Quiet(w.g)
BInv(w) ==
    /\ SInv(w) /\ w.b \in Bridge
    /\ w.s.st # "empty" => w.b.held /\ w.b.active
    /\ w.b.lease <=> w.b.held

(* The transport and its reference on the owner. *)
TRef(t, n) ==
    /\ IsTransport(t) /\ t.next \in Nat \ {0}
    /\ ~t.uncertain => n = IF t.idValid THEN 1 ELSE 0
    /\ t.uncertain => t.idValid
    /\ t.idValid => t.real
    /\ t.real => t.attempted
TInv(t, n) ==
    /\ TRef(t, n) /\ t.st \in {"idle", "active", "cleanup", "awaiting"}
    /\ t.st = "awaiting" => t.real
    /\ t.st = "idle" => ~t.idValid /\ ~t.real
    /\ t.gen = 0 => t.st = "idle"

Link(w) == w.s.st # "empty" \/ w.b.lease => w.t.st \in {"active", "cleanup"}

WInv(w) == BInv(w) /\ TInv(w.t, w.n) /\ Link(w)

Inv ==
    /\ WInv(World) /\ safeRearm \in BOOLEAN
    /\ module # "loaded" => transport.st = "idle" /\ ~transport.attempted
    /\ module = "unloaded" => Clean(g_pmu)
    /\ last.op = "close" /\ last.ok => transport.st = "idle" /\ Clean(g_pmu)

-----------------------------------------------------------------------------
-----------------------------------------------------------------------------
(* The engine is a record of fifteen fields; Set replaces one of them. *)

Flags == {"started", "ready", "done", "need", "active", "saved", "prep", "selNeed", "foreign"}
Fields == Flags \cup {"infl", "res", "lane", "ctl", "sel", "faults"}
Fits(f, v) ==
    /\ f \in Flags => v \in BOOLEAN
    /\ f = "infl" => v \in Kinds \cup {"none"}
    /\ f = "res" => v \in {"ok", "err"}
    /\ f = "lane" => v \in {"base", "event"}
    /\ f = "ctl" => v \in {"base", "on"}
    /\ f = "sel" => v \in {"base", "lane"}
    /\ f = "faults" => v \in Nat
Set(g, f, v) == [g EXCEPT ![f] = v]

LEMMA EngineIs ==
    ASSUME NEW g
    PROVE  g \in Engine <=> g = [f \in Fields |-> g[f]] /\ \A f \in Fields : Fits(f, g[f])
  <1>1. ASSUME g \in Engine PROVE g = [f \in Fields |-> g[f]]
    BY <1>1, Zenon DEF Engine, Fields, Flags
  <1>2. ASSUME g \in Engine PROVE \A f \in Fields : Fits(f, g[f])
    BY <1>2, Zenon DEF Engine, Fields, Flags, Fits
  <1>3. ASSUME g = [f \in Fields |-> g[f]], \A f \in Fields : Fits(f, g[f])
        PROVE  g \in Engine
    <2> DEFINE r == [started |-> g.started, ready |-> g.ready, infl |-> g.infl, done |-> g.done,
                     res |-> g.res, need |-> g.need, active |-> g.active, saved |-> g.saved,
                     prep |-> g.prep, selNeed |-> g.selNeed, lane |-> g.lane, ctl |-> g.ctl,
                     sel |-> g.sel, foreign |-> g.foreign, faults |-> g.faults]
    <2>1. \A f \in Fields : Fits(f, g[f])
      BY <1>3, Zenon
    <2>2. \A f \in Flags : g[f] \in BOOLEAN
      BY <2>1, Zenon DEF Fields, Fits
    <2>3. /\ Fits("infl", g["infl"]) /\ Fits("res", g["res"]) /\ Fits("lane", g["lane"])
          /\ Fits("ctl", g["ctl"]) /\ Fits("sel", g["sel"]) /\ Fits("faults", g["faults"])
      BY <2>1, Zenon DEF Fields
    <2>4. /\ g.started \in BOOLEAN /\ g.ready \in BOOLEAN /\ g.done \in BOOLEAN
          /\ g.need \in BOOLEAN /\ g.active \in BOOLEAN /\ g.saved \in BOOLEAN
          /\ g.prep \in BOOLEAN /\ g.selNeed \in BOOLEAN /\ g.foreign \in BOOLEAN
      BY <2>2, Zenon DEF Flags
    <2>5. /\ g.infl \in Kinds \cup {"none"} /\ g.res \in {"ok", "err"}
          /\ g.lane \in {"base", "event"} /\ g.ctl \in {"base", "on"}
          /\ g.sel \in {"base", "lane"} /\ g.faults \in Nat
      BY <2>3, Zenon DEF Fits
    <2>6. r \in Engine
      BY <2>4, <2>5 DEF Engine
    <2>7. r = [f \in Fields |-> g[f]]
      BY DEF Fields, Flags
    <2> QED
      BY <1>3, <2>6, <2>7, Zenon
  <1> QED
    BY <1>1, <1>2, <1>3, Zenon

LEMMA Get ==
    ASSUME NEW g \in Engine, NEW f \in Fields, NEW h \in Fields, NEW v
    PROVE  Set(g, f, v)[h] = IF h = f THEN v ELSE g[h]
  <1>1. g = [k \in Fields |-> g[k]]
    BY EngineIs, Zenon
  <1> QED
    BY <1>1, Zenon DEF Set

LEMMA SetFits ==
    ASSUME NEW g \in Engine, NEW f \in Fields, NEW v, Fits(f, v)
    PROVE  Set(g, f, v) \in Engine
  <1> DEFINE x == Set(g, f, v)
  <1>1. g = [h \in Fields |-> g[h]] /\ \A h \in Fields : Fits(h, g[h])
    BY EngineIs, Zenon
  <1>2. x = [h \in Fields |-> x[h]]
    BY <1>1, Zenon DEF Set
  <1>3. \A h \in Fields : x[h] = IF h = f THEN v ELSE g[h]
    BY Get
  <1> HIDE DEF x
  <1>4. \A h \in Fields : Fits(h, x[h])
    BY <1>1, <1>3, Zenon
  <1>5. x \in Engine
    BY <1>2, <1>4, EngineIs, Zenon
  <1> QED
    BY <1>5, Zenon DEF x

LEMMA Settable ==
    /\ \A f \in Flags, v \in BOOLEAN : f \in Fields /\ Fits(f, v)
    /\ \A v \in Kinds \cup {"none"} : "infl" \in Fields /\ Fits("infl", v)
    /\ \A v \in {"ok", "err"} : "res" \in Fields /\ Fits("res", v)
    /\ \A v \in {"base", "event"} : "lane" \in Fields /\ Fits("lane", v)
    /\ \A v \in {"base", "on"} : "ctl" \in Fields /\ Fits("ctl", v)
    /\ \A v \in {"base", "lane"} : "sel" \in Fields /\ Fits("sel", v)
    /\ \A v \in Nat : "faults" \in Fields /\ Fits("faults", v)
  BY Zenon DEF Fields, Flags, Fits

-----------------------------------------------------------------------------
(* What the worker executes. *)

(* What a command leaves alone; what a fault, a flag or a capture does. *)
Kept(g, c) == c.started = g.started /\ c.infl = g.infl /\ c.done = g.done
Same(g, c) ==
    /\ c \in Engine /\ Kept(g, c) /\ c.res = g.res /\ c.need = g.need /\ c.selNeed = g.selNeed
    /\ c.lane = g.lane /\ c.ctl = g.ctl /\ c.sel = g.sel
Captured(g, c) ==
    /\ c \in Engine /\ Kept(g, c)
    /\ c.need = g.need /\ c.lane = g.lane /\ c.ctl = g.ctl
    /\ \/ c.sel = g.sel /\ (c.selNeed = g.selNeed \/ ~c.selNeed)
       \/ c.selNeed

LEMMA OutcomeIs ==
    ASSUME NEW g, NEW r
    PROVE  Outcome(g, r).g = g /\ Outcome(g, r).r = r
  BY Zenon DEF Outcome

LEMMA FaultyDoes ==
    ASSUME NEW g \in Engine, g.faults > 0
    PROVE  Same(g, Faulty(g))
  BY DEF Faulty, Engine, Same, Kept

LEMMA SameTrans ==
    ASSUME NEW g, NEW f, NEW r, Same(g, f), Same(f, r)
    PROVE  Same(g, r)
  BY Zenon DEF Same, Kept

(* The setters that change nothing of interest. *)
LEMMA SetSame ==
    ASSUME NEW g \in Engine, NEW v \in BOOLEAN,
           NEW f \in {"ready", "active", "saved", "prep", "foreign"}
    PROVE  Same(g, Set(g, f, v)) /\ Set(g, f, v).faults = g.faults
  <1>1. Set(g, f, v) \in Engine
    BY SetFits, Settable, Zenon DEF Flags
  <1> QED
    BY <1>1, Get DEF Same, Kept, Fields, Flags

LEMMA FaultyOff ==
    ASSUME NEW g \in Engine, g.faults > 0
    PROVE  Same(g, Set(Faulty(g), "ready", FALSE))
  <1>1. Same(g, Faulty(g))
    BY FaultyDoes, Zenon
  <1>2. Same(Faulty(g), Set(Faulty(g), "ready", FALSE))
    BY <1>1, SetSame, Zenon DEF Same
  <1> QED
    BY <1>1, <1>2, SameTrans, Zenon

LEMMA SetStarted ==
    ASSUME NEW g \in Engine, NEW v \in BOOLEAN
    PROVE  LET c == Set(g, "started", v)
           IN  /\ c \in Engine /\ c.started = v /\ c.infl = g.infl /\ c.done = g.done
               /\ c.res = g.res /\ c.need = g.need /\ c.selNeed = g.selNeed
               /\ c.lane = g.lane /\ c.ctl = g.ctl /\ c.sel = g.sel /\ c.faults = g.faults
  <1>1. Set(g, "started", v) \in Engine
    BY SetFits, Settable, Zenon DEF Flags
  <1> QED
    BY <1>1, Get DEF Fields, Flags

LEMMA SetInfl ==
    ASSUME NEW g \in Engine, NEW v \in Kinds \cup {"none"}
    PROVE  LET c == Set(g, "infl", v)
           IN  /\ c \in Engine /\ c.started = g.started /\ c.infl = v /\ c.done = g.done
               /\ c.res = g.res /\ c.need = g.need /\ c.selNeed = g.selNeed
               /\ c.lane = g.lane /\ c.ctl = g.ctl /\ c.sel = g.sel /\ c.faults = g.faults
  <1>1. Set(g, "infl", v) \in Engine
    BY SetFits, Settable, Zenon DEF Flags
  <1> QED
    BY <1>1, Get DEF Fields, Flags

LEMMA SetDone ==
    ASSUME NEW g \in Engine, NEW v \in BOOLEAN
    PROVE  LET c == Set(g, "done", v)
           IN  /\ c \in Engine /\ c.started = g.started /\ c.infl = g.infl /\ c.done = v
               /\ c.res = g.res /\ c.need = g.need /\ c.selNeed = g.selNeed
               /\ c.lane = g.lane /\ c.ctl = g.ctl /\ c.sel = g.sel /\ c.faults = g.faults
  <1>1. Set(g, "done", v) \in Engine
    BY SetFits, Settable, Zenon DEF Flags
  <1> QED
    BY <1>1, Get DEF Fields, Flags

LEMMA SetRes ==
    ASSUME NEW g \in Engine, NEW v \in {"ok", "err"}
    PROVE  LET c == Set(g, "res", v)
           IN  /\ c \in Engine /\ c.started = g.started /\ c.infl = g.infl /\ c.done = g.done
               /\ c.res = v /\ c.need = g.need /\ c.selNeed = g.selNeed
               /\ c.lane = g.lane /\ c.ctl = g.ctl /\ c.sel = g.sel /\ c.faults = g.faults
  <1>1. Set(g, "res", v) \in Engine
    BY SetFits, Settable, Zenon DEF Flags
  <1> QED
    BY <1>1, Get DEF Fields, Flags

LEMMA SetNeed ==
    ASSUME NEW g \in Engine, NEW v \in BOOLEAN
    PROVE  LET c == Set(g, "need", v)
           IN  /\ c \in Engine /\ c.started = g.started /\ c.infl = g.infl /\ c.done = g.done
               /\ c.res = g.res /\ c.need = v /\ c.selNeed = g.selNeed
               /\ c.lane = g.lane /\ c.ctl = g.ctl /\ c.sel = g.sel /\ c.faults = g.faults
  <1>1. Set(g, "need", v) \in Engine
    BY SetFits, Settable, Zenon DEF Flags
  <1> QED
    BY <1>1, Get DEF Fields, Flags

LEMMA SetSelNeed ==
    ASSUME NEW g \in Engine, NEW v \in BOOLEAN
    PROVE  LET c == Set(g, "selNeed", v)
           IN  /\ c \in Engine /\ c.started = g.started /\ c.infl = g.infl /\ c.done = g.done
               /\ c.res = g.res /\ c.need = g.need /\ c.selNeed = v
               /\ c.lane = g.lane /\ c.ctl = g.ctl /\ c.sel = g.sel /\ c.faults = g.faults
  <1>1. Set(g, "selNeed", v) \in Engine
    BY SetFits, Settable, Zenon DEF Flags
  <1> QED
    BY <1>1, Get DEF Fields, Flags

LEMMA SetLane ==
    ASSUME NEW g \in Engine, NEW v \in {"base", "event"}
    PROVE  LET c == Set(g, "lane", v)
           IN  /\ c \in Engine /\ c.started = g.started /\ c.infl = g.infl /\ c.done = g.done
               /\ c.res = g.res /\ c.need = g.need /\ c.selNeed = g.selNeed
               /\ c.lane = v /\ c.ctl = g.ctl /\ c.sel = g.sel /\ c.faults = g.faults
  <1>1. Set(g, "lane", v) \in Engine
    BY SetFits, Settable, Zenon DEF Flags
  <1> QED
    BY <1>1, Get DEF Fields, Flags

LEMMA SetCtl ==
    ASSUME NEW g \in Engine, NEW v \in {"base", "on"}
    PROVE  LET c == Set(g, "ctl", v)
           IN  /\ c \in Engine /\ c.started = g.started /\ c.infl = g.infl /\ c.done = g.done
               /\ c.res = g.res /\ c.need = g.need /\ c.selNeed = g.selNeed
               /\ c.lane = g.lane /\ c.ctl = v /\ c.sel = g.sel /\ c.faults = g.faults
  <1>1. Set(g, "ctl", v) \in Engine
    BY SetFits, Settable, Zenon DEF Flags
  <1> QED
    BY <1>1, Get DEF Fields, Flags

LEMMA SetSel ==
    ASSUME NEW g \in Engine, NEW v \in {"base", "lane"}
    PROVE  LET c == Set(g, "sel", v)
           IN  /\ c \in Engine /\ c.started = g.started /\ c.infl = g.infl /\ c.done = g.done
               /\ c.res = g.res /\ c.need = g.need /\ c.selNeed = g.selNeed
               /\ c.lane = g.lane /\ c.ctl = g.ctl /\ c.sel = v /\ c.faults = g.faults
  <1>1. Set(g, "sel", v) \in Engine
    BY SetFits, Settable, Zenon DEF Flags
  <1> QED
    BY <1>1, Get DEF Fields, Flags

LEMMA CaptureDoes ==
    ASSUME NEW g \in Engine, NEW m \in BOOLEAN, NEW o \in Capture(g, m)
    PROVE  /\ o.r \in {"ok", "err"} /\ Captured(g, o.g)
           /\ o.r = "ok" => ~o.g.selNeed /\ o.g.sel = g.sel
           /\ o.r = "ok" /\ m => g.lane = "base"
  <1> DEFINE f == Faulty(g)
             r == Set(f, "ready", FALSE)
  <1>1. \/ o = Outcome(g, "err")
        \/ o = Outcome(Set(g, "selNeed", FALSE), "ok") /\ (m => g.lane # "event")
        \/ /\ g.faults > 0
           /\ \/ o = Outcome(f, "err")
              \/ o = Outcome(Set(r, "selNeed", FALSE), "err")
              \/ o = Outcome(Set(Set(r, "sel", "lane"), "selNeed", TRUE), "err")
    BY Zenon DEF Capture, Ok, Err, Maybe, Set
  <1>2. g.faults > 0 => Same(g, f) /\ Same(g, r)
    BY FaultyDoes, FaultyOff, Zenon
  <1> HIDE DEF f, r
  <1>3. CASE o = Outcome(g, "err")
    BY <1>3, Zenon DEF Outcome, Kept, Captured
  <1>4. CASE o = Outcome(Set(g, "selNeed", FALSE), "ok") /\ (m => g.lane # "event")
    <2>1. g.lane \in {"base", "event"}
      BY Zenon DEF Engine
    <2> QED
      BY <1>4, <2>1, SetSelNeed, Zenon DEF Outcome, Kept, Captured
  <1>5. CASE g.faults > 0 /\ o = Outcome(f, "err")
    BY <1>2, <1>5, Zenon DEF Outcome, Kept, Captured, Same
  <1>6. CASE g.faults > 0 /\ o = Outcome(Set(r, "selNeed", FALSE), "err")
    BY <1>2, <1>6, SetSelNeed, Zenon DEF Outcome, Kept, Captured, Same
  <1>7. CASE g.faults > 0 /\ o = Outcome(Set(Set(r, "sel", "lane"), "selNeed", TRUE), "err")
    <2> DEFINE x == Set(r, "sel", "lane")
               y == Set(x, "selNeed", TRUE)
    <2>1. /\ x \in Engine /\ x.started = r.started /\ x.infl = r.infl /\ x.done = r.done
          /\ x.need = r.need /\ x.lane = r.lane /\ x.ctl = r.ctl
      BY <1>2, <1>7, SetSel, Zenon DEF Same
    <2>2. /\ y \in Engine /\ y.started = r.started /\ y.infl = r.infl /\ y.done = r.done
          /\ y.need = r.need /\ y.lane = r.lane /\ y.ctl = r.ctl /\ y.selNeed
      BY <2>1, SetSelNeed, Zenon
    <2> HIDE DEF x, y
    <2>3. o.g = y /\ o.r = "err"
      BY <1>7, Zenon DEF Outcome, x, y
    <2> QED
      BY <1>2, <1>7, <2>2, <2>3, Zenon DEF Kept, Captured, Same
  <1> QED
    BY <1>1, <1>3, <1>4, <1>5, <1>6, <1>7, Zenon

LEMMA SameSound ==
    ASSUME NEW g, NEW c, Sound(g), Same(g, c)
    PROVE  Sound(c) /\ Kept(g, c) /\ c.need = g.need /\ c.selNeed = g.selNeed
  BY Zenon DEF Sound, Same

LEMMA CapturedSound ==
    ASSUME NEW g, NEW c, Sound(g), Captured(g, c), g.need \/ ~g.selNeed
    PROVE  Sound(c) /\ Kept(g, c) /\ c.need = g.need
  BY Zenon DEF Sound, Captured

LEMMA SnapshotDoes ==
    ASSUME NEW g, Sound(g), NEW o \in DoSnapshot(g)
    PROVE  /\ Sound(o.g) /\ Kept(g, o.g) /\ o.r \in {"ok", "err"} /\ o.g.need = g.need
           /\ o.r = "ok" => ~o.g.need /\ ~o.g.selNeed
  <1>1. \/ o = Outcome(g, "err")
        \/ /\ ~g.need /\ ~g.selNeed
           /\ \E c \in Capture(g, TRUE) :
                 \/ c.r = "ok" /\ o = Outcome(Set(c.g, "prep", TRUE), "ok")
                 \/ c.r # "ok" /\ o = c
    BY Zenon DEF DoSnapshot, AndThen, Ok, Err, Set
  <1>2. CASE o = Outcome(g, "err")
    BY <1>2, Zenon DEF Outcome, Kept
  <1>3. ASSUME ~g.need /\ ~g.selNeed,
               NEW c \in Capture(g, TRUE),
               \/ c.r = "ok" /\ o = Outcome(Set(c.g, "prep", TRUE), "ok")
               \/ c.r # "ok" /\ o = c
        PROVE  /\ Sound(o.g) /\ Kept(g, o.g) /\ o.r \in {"ok", "err"} /\ o.g.need = g.need
               /\ o.r = "ok" => ~o.g.need /\ ~o.g.selNeed
    <2>1. /\ c.r \in {"ok", "err"} /\ Captured(g, c.g)
          /\ c.r = "ok" => ~c.g.selNeed /\ c.g.sel = g.sel
      BY CaptureDoes, Zenon DEF Sound
    <2>2. Sound(c.g) /\ Kept(g, c.g) /\ c.g.need = g.need
      BY <1>3, <2>1, CapturedSound, Zenon
    <2>3. Same(c.g, Set(c.g, "prep", TRUE))
      BY <2>2, SetSame, Zenon DEF Sound
    <2>4. /\ Sound(Set(c.g, "prep", TRUE)) /\ Kept(c.g, Set(c.g, "prep", TRUE))
          /\ Set(c.g, "prep", TRUE).need = c.g.need
          /\ Set(c.g, "prep", TRUE).selNeed = c.g.selNeed
      BY <2>2, <2>3, SameSound, ZenonT(60)
    <2>5. CASE c.r = "ok"
      <3>1. o = Outcome(Set(c.g, "prep", TRUE), "ok")
        BY <1>3, <2>5, Zenon
      <3>2. o.g = Set(c.g, "prep", TRUE) /\ o.r = "ok"
        BY <3>1, OutcomeIs, Zenon
      <3> QED
        BY <1>3, <2>1, <2>2, <2>4, <2>5, <3>2, Zenon DEF Kept
    <2>6. CASE c.r # "ok"
      BY <1>3, <2>1, <2>2, <2>6, Zenon
    <2> QED
      BY <2>5, <2>6, Zenon
  <1> QED
    BY <1>1, <1>2, <1>3, Zenon

(* Once the record is published, nothing that Program does is unrecorded. *)
Recorded(g, c) == c \in Engine /\ Kept(g, c) /\ c.need

LEMMA RecordedSound ==
    ASSUME NEW g, NEW c, Recorded(g, c)
    PROVE  Sound(c) /\ Kept(g, c)
  BY Zenon DEF Sound, Recorded

LEMMA SameRecorded ==
    ASSUME NEW g, NEW c, NEW d, Recorded(g, c), Same(c, d) \/ Captured(c, d)
    PROVE  Recorded(g, d)
  BY Zenon DEF Recorded, Same, Captured, Kept

LEMMA ProgramDoes ==
    ASSUME NEW g \in Engine, NEW o \in Program(g)
    PROVE  Recorded(g, o.g) /\ o.r \in {"ok", "err"}
  <1> DEFINE n == Set(g, "need", TRUE)
             p == Set(n, "prep", FALSE)
             l == Set(p, "lane", "event")
             w == Set(l, "ctl", "on")
  <1>1. \/ \E c \in Capture(w, FALSE) :
              \/ c.r = "ok" /\ o = Outcome(Set(c.g, "active", TRUE), "ok")
              \/ c.r = "ok" /\ c.g.faults > 0 /\ o = Outcome(Faulty(c.g), "err")
              \/ c.r # "ok" /\ o = c
        \/ g.faults > 0 /\ o = Outcome(Set(Faulty(l), "sel", "lane"), "err")
    BY Zenon DEF Program, AndThen, Ok, Err, Maybe, Set
  <1>2. Recorded(g, n) /\ n.faults = g.faults
    BY SetNeed, Zenon DEF Recorded, Kept
  <1>3. Recorded(g, p) /\ p.faults = n.faults
    <2>1. Same(n, p) /\ p.faults = n.faults
      BY <1>2, SetSame, Zenon DEF Recorded
    <2> QED
      BY <1>2, <2>1, SameRecorded, Zenon
  <1>4. Recorded(g, l) /\ l.faults = p.faults
    BY <1>3, SetLane, Zenon DEF Recorded, Kept
  <1>5. Recorded(g, w)
    BY <1>4, SetCtl, Zenon DEF Recorded, Kept
  <1>6. ASSUME g.faults > 0, o = Outcome(Set(Faulty(l), "sel", "lane"), "err")
        PROVE  Recorded(g, o.g) /\ o.r \in {"ok", "err"}
    <2>1. Same(l, Faulty(l))
      BY <1>2, <1>3, <1>4, <1>6, FaultyDoes, Zenon DEF Recorded
    <2>2. Recorded(g, Faulty(l))
      BY <1>4, <2>1, SameRecorded, Zenon
    <2>3. Recorded(g, Set(Faulty(l), "sel", "lane"))
      BY <2>2, SetSel, Zenon DEF Recorded, Kept
    <2> QED
      BY <1>6, <2>3, Zenon DEF Outcome
  <1> HIDE DEF n, p, l, w
  <1>7. ASSUME NEW c \in Capture(w, FALSE),
               \/ c.r = "ok" /\ o = Outcome(Set(c.g, "active", TRUE), "ok")
               \/ c.r = "ok" /\ c.g.faults > 0 /\ o = Outcome(Faulty(c.g), "err")
               \/ c.r # "ok" /\ o = c
        PROVE  Recorded(g, o.g) /\ o.r \in {"ok", "err"}
    <2>1. c.r \in {"ok", "err"} /\ Captured(w, c.g)
      BY <1>5, CaptureDoes, Zenon DEF Recorded
    <2>2. Recorded(g, c.g)
      BY <1>5, <2>1, SameRecorded, Zenon
    <2>3. Recorded(g, Set(c.g, "active", TRUE))
      BY <2>2, SetSame, SameRecorded, ZenonT(60) DEF Recorded
    <2>4. c.g.faults > 0 => Recorded(g, Faulty(c.g))
      BY <2>2, FaultyDoes, SameRecorded, Zenon DEF Recorded
    <2>5. CASE o = Outcome(Set(c.g, "active", TRUE), "ok")
      BY <2>3, <2>5, OutcomeIs, ZenonT(60)
    <2>6. CASE c.g.faults > 0 /\ o = Outcome(Faulty(c.g), "err")
      BY <2>4, <2>6, OutcomeIs, Zenon
    <2>7. CASE o = c
      BY <2>1, <2>2, <2>7, Zenon
    <2> QED
      BY <1>7, <2>5, <2>6, <2>7, Zenon
  <1> QED
    BY <1>1, <1>6, <1>7, Zenon

LEMMA ConfigureDoes ==
    ASSUME NEW g, Sound(g), ~g.selNeed, NEW o \in DoConfigure(g)
    PROVE  Sound(o.g) /\ Kept(g, o.g) /\ o.r \in {"ok", "err"}
  <1> DEFINE s == Set(g, "saved", TRUE)
  <1>1. \/ o = Outcome(g, "err")
        \/ \E c \in Capture(s, TRUE) :
              \/ c.r = "ok" /\ Exact(c.g) /\ o \in Program(c.g)
              \/ c.r = "ok" /\ ~Exact(c.g) /\ o = Outcome(c.g, "err")
              \/ c.r # "ok" /\ o = c
    BY Zenon DEF DoConfigure, AndThen, Ok, Err, Set
  <1>2. Same(g, s)
    BY SetSame, Zenon DEF Sound
  <1>3. Sound(s) /\ Kept(g, s) /\ ~s.selNeed
    BY <1>2, SameSound, Zenon DEF Same
  <1> HIDE DEF s
  <1>4. CASE o = Outcome(g, "err")
    BY <1>4, OutcomeIs DEF Kept
  <1>5. ASSUME NEW c \in Capture(s, TRUE),
               \/ c.r = "ok" /\ Exact(c.g) /\ o \in Program(c.g)
               \/ c.r = "ok" /\ ~Exact(c.g) /\ o = Outcome(c.g, "err")
               \/ c.r # "ok" /\ o = c
        PROVE  Sound(o.g) /\ Kept(g, o.g) /\ o.r \in {"ok", "err"}
    <2>1. c.r \in {"ok", "err"} /\ Captured(s, c.g)
      BY <1>3, CaptureDoes, Zenon DEF Sound
    <2>2. Sound(c.g) /\ Kept(s, c.g)
      BY <1>3, <2>1, CapturedSound, Zenon
    <2>3. Kept(g, c.g)
      BY <1>3, <2>2, Zenon DEF Kept
    <2>4. CASE o \in Program(c.g)
      <3>1. Recorded(c.g, o.g) /\ o.r \in {"ok", "err"}
        BY <2>2, <2>4, ProgramDoes, Zenon DEF Sound
      <3>2. Sound(o.g) /\ Kept(c.g, o.g)
        BY <3>1, RecordedSound, Zenon
      <3> QED
        BY <2>3, <3>1, <3>2, Zenon DEF Kept
    <2>5. CASE o = Outcome(c.g, "err")
      BY <2>2, <2>3, <2>5, OutcomeIs
    <2>6. CASE o = c
      BY <2>1, <2>2, <2>3, <2>6, Zenon
    <2> QED
      BY <1>5, <2>4, <2>5, <2>6, Zenon
  <1> QED
    BY <1>1, <1>4, <1>5, Zenon

LEMMA ReadDoes ==
    ASSUME NEW g, Sound(g), NEW o \in DoRead(g)
    PROVE  Sound(o.g) /\ Kept(g, o.g) /\ o.r \in {"ok", "err"} /\ o.g.need = g.need
  <1>1. \/ o = Outcome(g, "err")
        \/ o = Outcome(g, "ok")
        \/ g.faults > 0 /\ o = Outcome(Faulty(g), "err")
        \/ g.need /\ g.faults > 0 /\ o = Outcome(Set(Faulty(g), "sel", "lane"), "err")
    BY Zenon DEF DoRead, Ok, Err, Maybe, Set
  <1>2. CASE o = Outcome(g, "err") \/ o = Outcome(g, "ok")
    <2>1. o.g = g /\ o.r \in {"ok", "err"}
      BY <1>2, OutcomeIs
    <2> QED
      BY <2>1, Zenon DEF Kept
  <1>3. g.faults > 0 => Same(g, Faulty(g))
    BY FaultyDoes, Zenon DEF Sound
  <1>4. CASE g.faults > 0 /\ o = Outcome(Faulty(g), "err")
    <2>1. o.g = Faulty(g) /\ o.r = "err"
      BY <1>4, OutcomeIs, Zenon
    <2> QED
      BY <1>3, <1>4, <2>1, SameSound, ZenonT(60)
  <1>5. CASE g.need /\ g.faults > 0 /\ o = Outcome(Set(Faulty(g), "sel", "lane"), "err")
    <2>1. o.g = Set(Faulty(g), "sel", "lane") /\ o.r = "err"
      BY <1>5, OutcomeIs, ZenonT(60)
    <2> DEFINE x == Set(Faulty(g), "sel", "lane")
    <2>2. /\ x \in Engine /\ x.started = g.started /\ x.infl = g.infl /\ x.done = g.done
          /\ x.need = g.need
      <3>1. Faulty(g) \in Engine
        BY <1>3, <1>5, Zenon DEF Same
      <3>2. /\ x \in Engine /\ x.started = Faulty(g).started /\ x.infl = Faulty(g).infl
            /\ x.done = Faulty(g).done /\ x.need = Faulty(g).need
        BY <3>1, SetSel, Zenon
      <3> QED
        BY <1>3, <1>5, <3>2, Zenon DEF Same, Kept
    <2>3. Recorded(g, o.g) /\ o.g.need = g.need
      BY <1>5, <2>1, <2>2, Zenon DEF Recorded, Kept
    <2> QED
      BY <2>1, <2>3, RecordedSound, Zenon
  <1> QED
    BY <1>1, <1>2, <1>4, <1>5, Zenon

LEMMA SelectorDoes ==
    ASSUME NEW g, Sound(g), NEW o \in RestoreSelector(g)
    PROVE  /\ Sound(o.g) /\ Kept(g, o.g) /\ o.r \in {"ok", "err"} /\ o.g.need = g.need
           /\ o.r = "ok" => ~o.g.selNeed
  <1> DEFINE s == Set(g, "selNeed", FALSE)
             b == Set(s, "sel", "base")
  <1>1. \/ o = Outcome(g, "ok") /\ ~g.selNeed
        \/ o = Outcome(b, "ok")
        \/ g.faults > 0 /\ o = Outcome(Faulty(g), "err")
    BY Zenon DEF RestoreSelector, Ok, Err, Maybe, Set
  <1>2. CASE o = Outcome(g, "ok") /\ ~g.selNeed
    <2>1. o.g = g /\ o.r = "ok"
      BY <1>2, OutcomeIs, Zenon
    <2> QED
      BY <1>2, <2>1, Zenon DEF Kept
  <1>3. CASE o = Outcome(b, "ok")
    <2>1. /\ s \in Engine /\ Kept(g, s) /\ s.need = g.need /\ s.lane = g.lane /\ s.ctl = g.ctl
          /\ ~s.selNeed
      BY SetSelNeed, Zenon DEF Sound, Kept
    <2>2. /\ b \in Engine /\ Kept(s, b) /\ b.need = s.need /\ b.lane = s.lane /\ b.ctl = s.ctl
          /\ ~b.selNeed /\ b.sel = "base"
      BY <2>1, SetSel, Zenon DEF Kept
    <2>3. o.g = b /\ o.r = "ok"
      BY <1>3, OutcomeIs, Zenon
    <2> HIDE DEF s, b
    <2> QED
      BY <2>1, <2>2, <2>3, Zenon DEF Sound, Kept
  <1>4. CASE g.faults > 0 /\ o = Outcome(Faulty(g), "err")
    <2>1. o.g = Faulty(g) /\ o.r = "err"
      BY <1>4, OutcomeIs, Zenon
    <2> QED
      BY <1>4, <2>1, FaultyDoes, SameSound, Zenon DEF Sound
  <1> QED
    BY <1>1, <1>2, <1>3, <1>4, Zenon

LEMMA UnwrittenDoes ==
    ASSUME NEW g, Sound(g), ~g.need, NEW o \in RestoreUnwritten(g)
    PROVE  /\ Sound(o.g) /\ Kept(g, o.g) /\ o.r \in {"ok", "err"}
           /\ o.r = "ok" => ~o.g.need /\ ~o.g.selNeed
  <1>1. \E c \in RestoreSelector(g) :
           \/ c.r = "ok" /\ o \in Capture(Set(c.g, "active", FALSE), TRUE)
           \/ c.r # "ok" /\ o = c
    BY Zenon DEF RestoreUnwritten, AndThen, Set
  <1>2. PICK c \in RestoreSelector(g) :
           \/ c.r = "ok" /\ o \in Capture(Set(c.g, "active", FALSE), TRUE)
           \/ c.r # "ok" /\ o = c
    BY <1>1, Zenon
  <1>3. /\ Sound(c.g) /\ Kept(g, c.g) /\ c.r \in {"ok", "err"} /\ c.g.need = g.need
        /\ c.r = "ok" => ~c.g.selNeed
    BY SelectorDoes, Zenon
  <1>4. CASE c.r # "ok"
    BY <1>2, <1>3, <1>4, Zenon
  <1>5. CASE c.r = "ok"
    <2> DEFINE a == Set(c.g, "active", FALSE)
    <2>1. Same(c.g, a)
      BY <1>3, SetSame, Zenon DEF Sound
    <2>2. Sound(a) /\ Kept(c.g, a) /\ a.need = c.g.need /\ a.selNeed = c.g.selNeed
      BY <1>3, <2>1, SameSound, Zenon
    <2>3. o \in Capture(a, TRUE)
      BY <1>2, <1>5, Zenon
    <2> HIDE DEF a
    <2>4. o.r \in {"ok", "err"} /\ Captured(a, o.g) /\ (o.r = "ok" => ~o.g.selNeed)
      BY <2>2, <2>3, CaptureDoes, Zenon DEF Sound
    <2>5. Sound(o.g) /\ Kept(a, o.g) /\ o.g.need = a.need
      BY <1>3, <1>5, <2>2, <2>4, CapturedSound, Zenon
    <2> QED
      BY <1>3, <1>5, <2>2, <2>4, <2>5, Zenon DEF Kept
  <1> QED
    BY <1>4, <1>5, Zenon

LEMMA WrittenDoes ==
    ASSUME NEW g, Sound(g), g.need, NEW o \in RestoreWritten(g)
    PROVE  /\ Sound(o.g) /\ Kept(g, o.g) /\ o.r \in {"ok", "err"}
           /\ o.r = "ok" => ~o.g.need /\ ~o.g.selNeed
  <1> DEFINE l == Set(g, "lane", "base")
             off == Set(l, "sel", "base")
             w == Set(off, "ctl", "base")
  <1>1. \/ o = Outcome(off, "err")
        \/ g.faults > 0 /\ o = Outcome(Faulty(g), "err")
        \/ \E c \in Capture(w, TRUE) :
              \/ /\ c.r = "ok"
                 /\ o = Outcome(Set(Set(Set(c.g, "active", FALSE), "need", FALSE), "prep", TRUE),
                                "ok")
              \/ c.r # "ok" /\ o = c
    BY Zenon DEF RestoreWritten, AndThen, Ok, Err, Maybe, Set
  <1>2. Recorded(g, l) /\ l.lane = "base"
    BY SetLane, Zenon DEF Sound, Recorded, Kept
  <1>3. Recorded(g, off) /\ off.lane = "base" /\ off.sel = "base"
    BY <1>2, SetSel, Zenon DEF Recorded, Kept
  <1>4. Recorded(g, w) /\ w.lane = "base" /\ w.sel = "base" /\ w.ctl = "base"
    BY <1>3, SetCtl DEF Recorded, Kept
  <1> HIDE DEF l, off, w
  <1>5. CASE o = Outcome(off, "err")
    BY <1>3, <1>5, OutcomeIs, RecordedSound
  <1>6. CASE g.faults > 0 /\ o = Outcome(Faulty(g), "err")
    <2>1. o.g = Faulty(g) /\ o.r = "err"
      BY <1>6, OutcomeIs, ZenonT(60)
    <2> QED
      BY <1>6, <2>1, FaultyDoes, SameSound, ZenonT(60) DEF Sound
  <1>7. ASSUME NEW c \in Capture(w, TRUE), c.r # "ok", o = c
        PROVE  Sound(o.g) /\ Kept(g, o.g) /\ o.r = "err"
    <2>1. c.r \in {"ok", "err"} /\ Captured(w, c.g)
      BY <1>4, CaptureDoes, Zenon DEF Recorded
    <2>2. Recorded(g, c.g)
      BY <1>4, <2>1, SameRecorded, Zenon
    <2> QED
      BY <1>7, <2>1, <2>2, RecordedSound, Zenon
  <1>8. ASSUME NEW c \in Capture(w, TRUE), c.r = "ok",
               o = Outcome(Set(Set(Set(c.g, "active", FALSE), "need", FALSE), "prep", TRUE), "ok")
        PROVE  Sound(o.g) /\ Kept(g, o.g) /\ o.r = "ok" /\ ~o.g.need /\ ~o.g.selNeed
    <2> DEFINE a == Set(c.g, "active", FALSE)
               n == Set(a, "need", FALSE)
               p == Set(n, "prep", TRUE)
    <2>1. Captured(w, c.g) /\ ~c.g.selNeed /\ c.g.sel = w.sel
      BY <1>4, <1>8, CaptureDoes, Zenon DEF Recorded
    <2>2. /\ c.g \in Engine /\ Kept(g, c.g) /\ ~c.g.selNeed
          /\ c.g.sel = "base" /\ c.g.lane = "base" /\ c.g.ctl = "base"
      BY <1>4, <2>1, Zenon DEF Captured, Recorded, Kept
    <2>3. Same(c.g, a)
      BY <2>2, SetSame, Zenon
    <2>4. /\ a \in Engine /\ Kept(g, a) /\ ~a.selNeed
          /\ a.sel = "base" /\ a.lane = "base" /\ a.ctl = "base"
      BY <2>2, <2>3, Zenon DEF Same, Kept
    <2>5. /\ n \in Engine /\ Kept(g, n) /\ ~n.selNeed /\ ~n.need
          /\ n.sel = "base" /\ n.lane = "base" /\ n.ctl = "base"
      BY <2>4, SetNeed, Zenon DEF Kept
    <2>6. Same(n, p)
      BY <2>5, SetSame, Zenon
    <2>7. o.g = p /\ o.r = "ok"
      BY <1>8, OutcomeIs, ZenonT(60)
    <2> HIDE DEF a, n, p
    <2> QED
      BY <2>5, <2>6, <2>7, Zenon DEF Same, Sound, Kept
  <1> QED
    BY <1>1, <1>5, <1>6, <1>7, <1>8, Zenon

LEMMA RestoreDoes ==
    ASSUME NEW g, Sound(g), NEW o \in DoRestore(g)
    PROVE  /\ Sound(o.g) /\ Kept(g, o.g) /\ o.r \in {"ok", "err"}
           /\ o.r = "ok" => ~o.g.need /\ ~o.g.selNeed
  <1>1. \/ o = Outcome(g, "err")
        \/ g.faults > 0 /\ o = Outcome(Faulty(g), "err")
        \/ g.need /\ o \in RestoreWritten(g)
        \/ ~g.need /\ o \in RestoreUnwritten(g)
    BY Zenon DEF DoRestore, Err, Maybe
  <1>2. CASE o = Outcome(g, "err")
    BY <1>2, OutcomeIs DEF Kept
  <1>3. CASE g.faults > 0 /\ o = Outcome(Faulty(g), "err")
    <2>1. o.g = Faulty(g) /\ o.r = "err"
      BY <1>3, OutcomeIs, Zenon
    <2> QED
      BY <1>3, <2>1, FaultyDoes, SameSound, Zenon DEF Sound
  <1> QED
    BY <1>1, <1>2, <1>3, WrittenDoes, UnwrittenDoes, Zenon

(* What each command does to what the sessions rely on. *)
Effect(g, c, r, kind) ==
    /\ kind \in {"snapshot", "read", "selector"} => c.need = g.need
    /\ kind \in {"snapshot", "restore"} /\ r = "ok" => ~c.need /\ ~c.selNeed
    /\ kind = "selector" /\ r = "ok" => ~c.selNeed
Executed(g, c, r, kind) ==
    Sound(c) /\ Kept(g, c) /\ r \in {"ok", "err"} /\ Effect(g, c, r, kind)

LEMMA ExecuteDoes ==
    ASSUME NEW g, Sound(g), NEW kind \in Kinds, kind = "configure" => ~g.selNeed,
           NEW o \in Execute(g, kind)
    PROVE  Executed(g, o.g, o.r, kind)
  <1>1. CASE kind = "snapshot"
    BY <1>1, SnapshotDoes, Zenon DEF Execute, Executed, Effect
  <1>2. CASE kind = "configure"
    BY <1>2, ConfigureDoes, Zenon DEF Execute, Executed, Effect
  <1>3. CASE kind = "read"
    BY <1>3, ReadDoes, Zenon DEF Execute, Executed, Effect
  <1>4. CASE kind = "restore"
    BY <1>4, RestoreDoes, Zenon DEF Execute, Executed, Effect
  <1>5. CASE kind = "selector"
    BY <1>5, SelectorDoes, Zenon DEF Execute, Executed, Effect
  <1> QED
    BY <1>1, <1>2, <1>3, <1>4, <1>5, Zenon DEF Kinds

-----------------------------------------------------------------------------
(* What the callers of the engine do. *)

LEMMA CompletedDoes ==
    ASSUME NEW g, Sound(g), g.infl \in Kinds, g.infl = "configure" => ~g.selNeed,
           NEW c \in Completed(g)
    PROVE  /\ Sound(c) /\ c.started = g.started /\ c.infl = g.infl /\ c.done
           /\ c.res \in {"ok", "err"} /\ Effect(g, c, c.res, g.infl)
  <1>1. PICK o \in Execute(g, g.infl) : c = Set(Set(o.g, "done", TRUE), "res", o.r)
    BY Zenon DEF Completed, Set
  <1>2. Executed(g, o.g, o.r, g.infl)
    BY ExecuteDoes, Zenon
  <1>3. /\ Sound(o.g) /\ Kept(g, o.g) /\ o.r \in {"ok", "err"} /\ Effect(g, o.g, o.r, g.infl)
    BY <1>2, Zenon DEF Executed
  <1> DEFINE d == Set(o.g, "done", TRUE)
  <1>4. /\ d \in Engine /\ d.started = g.started /\ d.infl = g.infl /\ d.done
        /\ d.need = o.g.need /\ d.selNeed = o.g.selNeed /\ d.lane = o.g.lane
        /\ d.ctl = o.g.ctl /\ d.sel = o.g.sel
    BY <1>3, SetDone, Zenon DEF Sound, Kept
  <1>5. c = Set(d, "res", o.r)
    BY <1>1, Zenon
  <1> HIDE DEF d
  <1>6. /\ c \in Engine /\ c.started = d.started /\ c.infl = d.infl /\ c.done = d.done
        /\ c.res = o.r /\ c.need = d.need /\ c.selNeed = d.selNeed /\ c.lane = d.lane
        /\ c.ctl = d.ctl /\ c.sel = d.sel
    BY <1>3, <1>4, <1>5, SetRes, ZenonT(60)
  <1>7. Sound(c)
    BY <1>3, <1>4, <1>6, Zenon DEF Sound
  <1>8. Effect(g, c, c.res, g.infl)
    BY <1>3, <1>4, <1>6, Zenon DEF Effect
  <1> QED
    BY <1>3, <1>4, <1>6, <1>7, <1>8, Zenon

LEMMA SetNoneDoes ==
    ASSUME NEW c, Sound(c), c.started
    PROVE  LET d == Set(c, "infl", "none")
           IN  /\ EInv(d) /\ d.started /\ d.infl = "none"
               /\ d.need = c.need /\ d.selNeed = c.selNeed
  <1> DEFINE d == Set(c, "infl", "none")
  <1>1. /\ d \in Engine /\ d.started = c.started /\ d.infl = "none" /\ d.need = c.need
        /\ d.selNeed = c.selNeed /\ d.lane = c.lane /\ d.ctl = c.ctl /\ d.sel = c.sel
    BY SetInfl, Zenon DEF Sound
  <1> HIDE DEF d
  <1>2. EInv(d) /\ d.started /\ d.infl = "none" /\ d.need = c.need /\ d.selNeed = c.selNeed
    BY <1>1, Zenon DEF Sound, EInv
  <1> QED
    BY <1>2, Zenon DEF d

LEMMA SameEInv ==
    ASSUME NEW g, NEW c, EInv(g), Same(g, c)
    PROVE  /\ EInv(c) /\ c.started = g.started /\ c.infl = g.infl /\ c.need = g.need
           /\ c.selNeed = g.selNeed
  BY Zenon DEF EInv, Sound, Same, Kept

LEMMA ReapedDoes ==
    ASSUME NEW g, EInv(g), g.infl # "none", NEW o \in Reaped(g)
    PROVE  /\ EInv(o.g) /\ g.started /\ o.g.started /\ o.r \in Results
           /\ o.r # "timeout" => o.g.infl = "none"
           /\ Quiet(g) => Quiet(o.g)
  <1>1. g \in Engine /\ g.started /\ Sound(g) /\ g.infl \in Kinds /\ g.res \in {"ok", "err"}
        /\ g.done \in BOOLEAN
    BY Zenon DEF EInv, Sound, Engine
  <1>2. \/ g.done /\ o = Outcome(Set(g, "infl", "none"), g.res)
        \/ ~g.done /\ \E c \in Completed(g) : o = Outcome(Set(c, "infl", "none"), c.res)
        \/ ~g.done /\ o = Outcome(Set(g, "ready", FALSE), "timeout")
    BY <1>1, Zenon DEF Reaped, Set
  <1>3. CASE o = Outcome(Set(g, "infl", "none"), g.res)
    <2>1. o.g = Set(g, "infl", "none") /\ o.r = g.res
      BY <1>3, OutcomeIs, Zenon
    <2>2. EInv(o.g) /\ o.g.started /\ o.g.infl = "none" /\ o.g.need = g.need
      BY <1>1, <2>1, SetNoneDoes, Zenon
    <2> QED
      BY <1>1, <2>1, <2>2, Zenon DEF Quiet, Results
  <1>4. ASSUME ~g.done, NEW c \in Completed(g), o = Outcome(Set(c, "infl", "none"), c.res)
        PROVE  /\ EInv(o.g) /\ o.g.started /\ o.r \in Results
               /\ o.r # "timeout" => o.g.infl = "none"
               /\ Quiet(g) => Quiet(o.g)
    <2>1. g.infl = "configure" => ~g.selNeed
      BY <1>4, Zenon DEF EInv
    <2>2. /\ Sound(c) /\ c.started = g.started /\ c.res \in {"ok", "err"}
          /\ Effect(g, c, c.res, g.infl)
      BY <1>1, <2>1, CompletedDoes, Zenon
    <2>3. o.g = Set(c, "infl", "none") /\ o.r = c.res
      BY <1>4, OutcomeIs
    <2>4. EInv(o.g) /\ o.g.started /\ o.g.infl = "none" /\ o.g.need = c.need
      BY <1>1, <2>2, <2>3, SetNoneDoes, Zenon
    <2>5. Quiet(g) => ~c.need
      BY <1>1, <2>2, Zenon DEF Quiet, Effect
    <2> QED
      BY <2>2, <2>3, <2>4, <2>5, Zenon DEF Quiet, Results
  <1>5. CASE o = Outcome(Set(g, "ready", FALSE), "timeout")
    <2>1. o.g = Set(g, "ready", FALSE) /\ o.r = "timeout"
      BY <1>5, OutcomeIs, Zenon
    <2>2. Same(g, o.g)
      BY <1>1, <2>1, SetSame, Zenon
    <2> QED
      BY <1>1, <2>1, <2>2, SameEInv, ZenonT(60) DEF Quiet, Results
  <1> QED
    BY <1>1, <1>2, <1>3, <1>4, <1>5, Zenon

LEMMA PublishDoes ==
    ASSUME NEW g, EInv(g), g.started, g.infl = "none", NEW kind \in Kinds,
           kind = "configure" => ~g.selNeed, NEW o \in Publish(g, kind)
    PROVE  /\ EInv(o.g) /\ o.g.started /\ o.r \in Results
           /\ o.r = "ok" => o.g.infl = "none"
           /\ o.r = "ok" /\ kind \in {"snapshot", "restore"} => ~o.g.need /\ ~o.g.selNeed
           /\ o.r = "ok" /\ kind = "selector" => ~o.g.selNeed
           /\ Quiet(g) /\ kind \in {"snapshot", "selector"} => Quiet(o.g)
  <1> DEFINE i == Set(g, "infl", kind)
             p == Set(i, "done", FALSE)
  <1>1. \/ \E c \in Completed(p) : o = Outcome(Set(c, "infl", "none"), c.res)
        \/ g.faults > 0 /\ o = Outcome(Faulty(g), "err")
        \/ g.faults > 0 /\ o = Outcome(Set(Faulty(p), "ready", FALSE), "timeout")
    BY Zenon DEF Publish, Err, Maybe, Set
  <1>2. /\ i \in Engine /\ i.started = g.started /\ i.infl = kind /\ i.need = g.need
        /\ i.selNeed = g.selNeed /\ i.lane = g.lane /\ i.ctl = g.ctl /\ i.sel = g.sel
        /\ i.faults = g.faults
    BY SetInfl, ZenonT(60) DEF EInv, Sound
  <1>3. /\ p \in Engine /\ p.started = i.started /\ p.infl = i.infl /\ p.need = i.need
        /\ p.selNeed = i.selNeed /\ p.lane = i.lane /\ p.ctl = i.ctl /\ p.sel = i.sel
        /\ p.faults = i.faults
    BY <1>2, SetDone, Zenon
  <1> HIDE DEF i, p
  <1>4. /\ EInv(p) /\ p.started /\ p.infl = kind /\ p.need = g.need /\ p.selNeed = g.selNeed
        /\ p.faults = g.faults /\ p \in Engine
    BY <1>2, <1>3, Zenon DEF EInv, Sound
  <1>5. ASSUME NEW c \in Completed(p), o = Outcome(Set(c, "infl", "none"), c.res)
        PROVE  /\ EInv(o.g) /\ o.g.started /\ o.r \in Results
               /\ o.r = "ok" => o.g.infl = "none"
               /\ o.r = "ok" /\ kind \in {"snapshot", "restore"} => ~o.g.need /\ ~o.g.selNeed
               /\ o.r = "ok" /\ kind = "selector" => ~o.g.selNeed
               /\ Quiet(g) /\ kind \in {"snapshot", "selector"} => Quiet(o.g)
    <2>1. Sound(p) /\ p.infl \in Kinds
      BY <1>4, Zenon DEF EInv
    <2>2. /\ Sound(c) /\ c.started = p.started /\ c.res \in {"ok", "err"}
          /\ Effect(p, c, c.res, kind)
      BY <1>4, <2>1, CompletedDoes, Zenon
    <2>3. o.g = Set(c, "infl", "none") /\ o.r = c.res
      BY <1>5, OutcomeIs
    <2>4. /\ EInv(o.g) /\ o.g.started /\ o.g.infl = "none" /\ o.g.need = c.need
          /\ o.g.selNeed = c.selNeed
      <3>1. Sound(c) /\ c.started
        BY <1>4, <2>2, Zenon
      <3> DEFINE d == Set(c, "infl", "none")
      <3>2. /\ EInv(d) /\ d.started /\ d.infl = "none" /\ d.need = c.need
            /\ d.selNeed = c.selNeed
        BY <3>1, SetNoneDoes, Zenon
      <3> QED
        BY <2>3, <3>2, Zenon
    <2> QED
      BY <1>4, <2>2, <2>3, <2>4, Zenon DEF Effect, Quiet, Results
  <1>6. CASE g.faults > 0 /\ o = Outcome(Faulty(g), "err")
    <2>1. o.g = Faulty(g) /\ o.r = "err"
      BY <1>6, OutcomeIs, Zenon
    <2>2. Same(g, o.g)
      BY <1>6, <2>1, FaultyDoes, Zenon DEF EInv, Sound
    <2> QED
      BY <2>1, <2>2, SameEInv, ZenonT(60) DEF Quiet, Results
  <1>7. CASE g.faults > 0 /\ o = Outcome(Set(Faulty(p), "ready", FALSE), "timeout")
    <2>1. o.g = Set(Faulty(p), "ready", FALSE) /\ o.r = "timeout"
      BY <1>7, OutcomeIs, Zenon
    <2>2. Same(p, o.g)
      BY <1>4, <1>7, <2>1, FaultyOff, Zenon
    <2>3. EInv(o.g) /\ o.g.started /\ o.g.infl = kind /\ o.g.need = g.need
      BY <1>4, <2>2, SameEInv
    <2> QED
      BY <2>1, <2>3, Zenon DEF Quiet, Results
  <1> QED
    BY <1>1, <1>5, <1>6, <1>7, Zenon

LEMMA DispatchDoes ==
    ASSUME NEW g, EInv(g), NEW kind \in Kinds, NEW permit \in BOOLEAN,
           kind = "configure" => g.infl = "none" /\ ~g.selNeed,
           NEW o \in Dispatch(g, kind, permit)
    PROVE  /\ EInv(o.g) /\ o.r \in Results
           /\ o.r = "ok" => o.g.started /\ o.g.infl = "none"
           /\ o.r = "ok" /\ kind \in {"snapshot", "restore"} => Clean(o.g)
           /\ o.r = "ok" /\ kind = "selector" => ~o.g.selNeed
           /\ Quiet(g) /\ kind \in {"snapshot", "selector"} => Quiet(o.g)
  <1>1. \/ o = Outcome(g, "err")
        \/ g.started /\ g.infl = "none" /\ o \in Publish(g, kind)
        \/ /\ g.infl # "none"
           /\ \E p \in Reaped(g) :
                 \/ p.r = "timeout" /\ o = p
                 \/ p.r # "timeout" /\ o \in Publish(p.g, kind)
    BY DEF Dispatch, Err, EInv, Sound, Engine
  <1>2. CASE o = Outcome(g, "err")
    <2>1. o.g = g /\ o.r = "err"
      BY <1>2, OutcomeIs, Zenon
    <2> QED
      BY <2>1, Zenon DEF Results
  <1>3. CASE g.started /\ g.infl = "none" /\ o \in Publish(g, kind)
    BY <1>3, PublishDoes, Zenon DEF Clean
  <1>4. ASSUME g.infl # "none", NEW p \in Reaped(g), p.r = "timeout", o = p
        PROVE  EInv(o.g) /\ o.r = "timeout" /\ (Quiet(g) => Quiet(o.g))
    BY <1>4, ReapedDoes, Zenon
  <1>5. ASSUME g.infl # "none", NEW p \in Reaped(g), p.r # "timeout", o \in Publish(p.g, kind)
        PROVE  /\ EInv(o.g) /\ o.r \in Results
               /\ o.r = "ok" => o.g.started /\ o.g.infl = "none"
               /\ o.r = "ok" /\ kind \in {"snapshot", "restore"} => Clean(o.g)
               /\ o.r = "ok" /\ kind = "selector" => ~o.g.selNeed
               /\ Quiet(g) /\ kind \in {"snapshot", "selector"} => Quiet(o.g)
    <2>1. EInv(p.g) /\ p.g.started /\ p.g.infl = "none" /\ (Quiet(g) => Quiet(p.g))
      BY <1>5, ReapedDoes, Zenon
    <2>2. kind # "configure"
      BY <1>5, Zenon
    <2> QED
      BY <1>5, <2>1, <2>2, PublishDoes, Zenon DEF Clean
  <1>6. ASSUME g.infl # "none", NEW p \in Reaped(g), p.r = "timeout", o = p
        PROVE  /\ EInv(o.g) /\ o.r \in Results
               /\ o.r = "ok" => o.g.started /\ o.g.infl = "none"
               /\ o.r = "ok" /\ kind \in {"snapshot", "restore"} => Clean(o.g)
               /\ o.r = "ok" /\ kind = "selector" => ~o.g.selNeed
               /\ Quiet(g) /\ kind \in {"snapshot", "selector"} => Quiet(o.g)
    BY <1>4, <1>6, Zenon DEF Results
  <1> QED
    BY <1>1, <1>2, <1>3, <1>5, <1>6, Zenon

(* Nothing changes that EInv, Quiet and Clean speak of. *)
LEMMA SameKeeps ==
    ASSUME NEW g, NEW c, EInv(g), Same(g, c)
    PROVE  /\ EInv(c) /\ (Quiet(g) => Quiet(c)) /\ (Clean(g) => Clean(c))
           /\ c.started = g.started /\ c.infl = g.infl
  BY SameEInv, Zenon DEF Quiet, Clean

LEMMA CallbackSnapshotDoes ==
    ASSUME NEW g, EInv(g), NEW o \in CallbackSnapshot(g)
    PROVE  EInv(o.g) /\ (o.r = "ok" => Clean(o.g)) /\ (Quiet(g) => Quiet(o.g))
  BY DispatchDoes, Zenon DEF CallbackSnapshot, Kinds

LEMMA CallbackConfigureDoes ==
    ASSUME NEW g, EInv(g), Clean(g), NEW o \in CallbackConfigure(g)
    PROVE  EInv(o.g)
  <1> DEFINE v == g.saved \/ (~g.need /\ ~g.selNeed /\ ~g.active /\ g.prep)
             s == Set(g, "saved", v)
  <1>1. o \in Dispatch(s, "configure", FALSE)
    BY Zenon DEF CallbackConfigure, Set
  <1>2. v \in BOOLEAN
    BY Zenon
  <1> HIDE DEF v
  <1>3. Same(g, s)
    BY <1>2, SetSame, Zenon DEF EInv, Sound
  <1> HIDE DEF s
  <1>4. EInv(s) /\ s.infl = "none" /\ ~s.selNeed
    BY <1>3, SameEInv, Zenon DEF Clean
  <1> QED
    BY <1>1, <1>4, DispatchDoes, Zenon DEF Kinds

LEMMA CallbackReadDoes ==
    ASSUME NEW g, EInv(g), NEW o \in CallbackRead(g)
    PROVE  EInv(o.g)
  BY DispatchDoes, Zenon DEF CallbackRead, Kinds

LEMMA CallbackRestoreDoes ==
    ASSUME NEW g, EInv(g), NEW o \in CallbackRestore(g)
    PROVE  EInv(o.g) /\ (o.r = "ok" => Clean(o.g))
  <1>1. PICK c \in Dispatch(g, "restore", TRUE) :
              \/ /\ c.r = "ok"
                 /\ o = Outcome(Set(c.g, "ready", c.g.ready \/ ~(c.g.need \/ c.g.selNeed)), "ok")
              \/ c.r # "ok" /\ o = c
    BY Zenon DEF CallbackRestore, AndThen, Ok, Set
  <1>2. EInv(c.g) /\ (c.r = "ok" => Clean(c.g))
    BY DispatchDoes, Zenon DEF Kinds
  <1>3. CASE c.r # "ok"
    BY <1>1, <1>2, <1>3, Zenon
  <1>4. CASE c.r = "ok"
    <2> DEFINE v == c.g.ready \/ ~(c.g.need \/ c.g.selNeed)
               s == Set(c.g, "ready", v)
    <2>1. o = Outcome(s, "ok")
      BY <1>1, <1>4, Zenon
    <2>2. v \in BOOLEAN
      BY Zenon
    <2> HIDE DEF v
    <2>3. Same(c.g, s)
      BY <1>2, <2>2, SetSame, Zenon DEF EInv, Sound
    <2>4. o.g = s
      BY <2>1, OutcomeIs, Zenon
    <2> QED
      BY <1>2, <1>4, <2>3, <2>4, SameKeeps, Zenon
  <1> QED
    BY <1>3, <1>4, Zenon

LEMMA MarkReadyDoes ==
    ASSUME NEW g, EInv(g)
    PROVE  Same(g, MarkReady(g))
  <1> DEFINE v == g.ready \/ ~(g.active \/ g.need \/ g.selNeed)
  <1>1. v \in BOOLEAN
    BY Zenon
  <1>2. MarkReady(g) = Set(g, "ready", v)
    BY Zenon DEF MarkReady, Set
  <1> HIDE DEF v
  <1> QED
    BY <1>1, <1>2, SetSame, Zenon DEF EInv, Sound

LEMMA RecoverRestDoes ==
    ASSUME NEW g, EInv(g), Quiet(g), NEW p \in BOOLEAN, NEW o \in RecoverRest(g, p)
    PROVE  EInv(o.g) /\ Quiet(o.g)
  <1>1. PICK s \in RecoverSelector(g, p) :
              \/ s.r # "ok" /\ o = Outcome(s.g, s.r)
              \/ s.r = "ok" /\ ~s.g.need /\ o = Outcome(IF s.proved THEN MarkReady(s.g) ELSE s.g, "ok")
              \/ s.g.need
    BY Zenon DEF RecoverRest, Ok, AndThen
  <1>2. \/ s.g = g
        \/ \E d \in Dispatch(g, "selector", TRUE) : s.g = d.g
    <2>1. CASE ~g.selNeed
      <3>1. s = [g |-> g, r |-> "ok", proved |-> p]
        BY <2>1, Zenon DEF RecoverSelector
      <3>2. s.g = g
        BY <3>1, Zenon
      <3> QED
        BY <3>2, Zenon
    <2>2. CASE g.selNeed
      <3>1. PICK d \in Dispatch(g, "selector", TRUE) : s = [g |-> d.g, r |-> d.r, proved |-> TRUE]
        BY <2>2, Zenon DEF RecoverSelector
      <3>2. s.g = d.g
        BY <3>1, Zenon
      <3> QED
        BY <3>2, Zenon
    <2> QED
      BY <2>1, <2>2, Zenon
  <1>3. EInv(s.g) /\ Quiet(s.g)
    BY <1>2, DispatchDoes, Zenon DEF Kinds
  <1>4. CASE o = Outcome(s.g, s.r)
    BY <1>3, <1>4, OutcomeIs, Zenon
  <1>5. CASE o = Outcome(IF s.proved THEN MarkReady(s.g) ELSE s.g, "ok")
    <2>1. o.g = MarkReady(s.g) \/ o.g = s.g
      BY <1>5, OutcomeIs
    <2>2. Same(s.g, MarkReady(s.g))
      BY <1>3, MarkReadyDoes, Zenon
    <2> QED
      BY <1>3, <2>1, <2>2, SameKeeps, Zenon
  <1> QED
    BY <1>1, <1>3, <1>4, <1>5, Zenon DEF Quiet

LEMMA RecoverDoes ==
    ASSUME NEW g, EInv(g), Quiet(g), NEW o \in BackendRecover(g)
    PROVE  EInv(o.g) /\ Quiet(o.g)
  <1>1. \/ o = Outcome(g, "err")
        \/ o \in RecoverRest(g, FALSE)
        \/ /\ g.infl # "none"
           /\ \E p \in Reaped(g) : o = p \/ o \in RecoverRest(p.g, p.r = "ok")
    BY Zenon DEF BackendRecover, Err
  <1>2. CASE o = Outcome(g, "err")
    BY <1>2, OutcomeIs, Zenon
  <1>3. CASE o \in RecoverRest(g, FALSE)
    BY <1>3, RecoverRestDoes, Zenon
  <1>4. ASSUME g.infl # "none", NEW p \in Reaped(g), o = p \/ o \in RecoverRest(p.g, p.r = "ok")
        PROVE  EInv(o.g) /\ Quiet(o.g)
    <2>1. EInv(p.g) /\ Quiet(p.g)
      BY <1>4, ReapedDoes, Zenon
    <2>2. CASE o = p
      BY <2>1, <2>2, Zenon
    <2>3. CASE o \in RecoverRest(p.g, p.r = "ok")
      <3>1. (p.r = "ok") \in BOOLEAN
        BY Zenon
      <3> QED
        BY <2>1, <2>3, <3>1, RecoverRestDoes, Zenon
    <2> QED
      BY <1>4, <2>2, <2>3, Zenon
  <1> QED
    BY <1>1, <1>2, <1>3, <1>4, Zenon

LEMMA TearDownDoes ==
    ASSUME NEW g, EInv(g), Clean(g), NEW o \in TearDown(g)
    PROVE  EInv(o.g) /\ Clean(o.g)
  <1> DEFINE e == EngineStarted(g.faults)
             s == Set(e, "started", FALSE)
             r == Set(s, "ready", FALSE)
             l == Set(r, "lane", g.lane)
             c == Set(l, "ctl", g.ctl)
             b == Set(c, "sel", g.sel)
             t == Set(b, "foreign", g.foreign)
  <1>1. \/ o = Outcome(t, "ok")
        \/ g.faults > 0 /\ o = Outcome(Set(Faulty(g), "ready", FALSE), "err")
    BY Zenon DEF TearDown, Ok, Err, Maybe, Set
  <1>2. /\ g.lane = "base" /\ g.ctl = "base" /\ g.sel = "base"
        /\ g.foreign \in BOOLEAN /\ g.faults \in Nat
    BY Zenon DEF EInv, Sound, Clean, Engine
  <1>3. CASE o = Outcome(t, "ok")
    <2>1. e \in Engine /\ e.infl = "none" /\ ~e.need /\ ~e.selNeed
      BY <1>2, Zenon DEF EngineStarted, Engine
    <2> HIDE DEF e
    <2>2. s \in Engine /\ ~s.started /\ s.infl = "none" /\ ~s.need /\ ~s.selNeed
      BY <2>1, SetStarted, Zenon
    <2> HIDE DEF s
    <2>3. Same(s, r)
      BY <2>2, SetSame, Zenon
    <2>4. r \in Engine /\ ~r.started /\ r.infl = "none" /\ ~r.need /\ ~r.selNeed
      BY <2>2, <2>3, Zenon DEF Same, Kept
    <2> HIDE DEF r
    <2>5. /\ l \in Engine /\ ~l.started /\ l.infl = "none" /\ ~l.need /\ ~l.selNeed
          /\ l.lane = "base"
      BY <1>2, <2>4, SetLane
    <2> HIDE DEF l
    <2>6. /\ c \in Engine /\ ~c.started /\ c.infl = "none" /\ ~c.need /\ ~c.selNeed
          /\ c.lane = "base" /\ c.ctl = "base"
      BY <1>2, <2>5, SetCtl
    <2> HIDE DEF c
    <2>7. /\ b \in Engine /\ ~b.started /\ b.infl = "none" /\ ~b.need /\ ~b.selNeed
          /\ b.lane = "base" /\ b.ctl = "base" /\ b.sel = "base"
      BY <1>2, <2>6, SetSel
    <2> HIDE DEF b
    <2>8. EInv(b) /\ Clean(b)
      BY <2>7, Zenon DEF EInv, Sound, Clean
    <2>9. Same(b, t)
      BY <1>2, <2>7, SetSame, Zenon
    <2>10. o.g = t
      BY <1>3, OutcomeIs, Zenon
    <2> HIDE DEF t
    <2> QED
      BY <2>8, <2>9, <2>10, SameKeeps, Zenon
  <1>4. CASE g.faults > 0 /\ o = Outcome(Set(Faulty(g), "ready", FALSE), "err")
    <2>1. o.g = Set(Faulty(g), "ready", FALSE)
      BY <1>4, OutcomeIs, Zenon
    <2>2. Same(g, o.g)
      BY <1>4, <2>1, FaultyOff, Zenon DEF EInv, Sound
    <2> QED
      BY <2>2, SameKeeps, Zenon
  <1> QED
    BY <1>1, <1>3, <1>4, Zenon

LEMMA StopRestDoes ==
    ASSUME NEW g, EInv(g), Quiet(g), g.infl = "none", NEW o \in StopRest(g)
    PROVE  EInv(o.g) /\ Quiet(o.g) /\ (o.r = "ok" => Clean(o.g))
  <1> DEFINE Rest(c) == UNION {IF d.r = "ok" THEN TearDown(d.g) ELSE {d} :
                               d \in IF c.need THEN Dispatch(c, "restore", TRUE) ELSE Ok(c)}
  <1>1. PICK c \in IF g.selNeed THEN Dispatch(g, "selector", TRUE) ELSE Ok(g) :
              o \in IF c.r = "ok" THEN Rest(c.g) ELSE {c}
    BY Zenon DEF StopRest, AndThen
  <1>2. /\ EInv(c.g) /\ Quiet(c.g)
        /\ c.r = "ok" => c.g.infl = "none" /\ ~c.g.selNeed
    <2>1. CASE g.selNeed
      BY <2>1, DispatchDoes, Zenon DEF Kinds
    <2>2. CASE ~g.selNeed
      <3>1. c.g = g
        BY <2>2, OutcomeIs DEF Ok
      <3> QED
        BY <2>2, <3>1, Zenon
    <2> QED
      BY <2>1, <2>2, Zenon
  <1>3. CASE c.r # "ok"
    BY <1>1, <1>2, <1>3, Zenon
  <1>4. CASE c.r = "ok"
    <2>1. Clean(c.g)
      BY <1>2, <1>4, Zenon DEF Clean, Quiet
    <2>2. PICK d \in Ok(c.g) : o \in IF d.r = "ok" THEN TearDown(d.g) ELSE {d}
      BY <1>1, <1>4, <2>1, Zenon DEF Clean
    <2>3. o \in TearDown(c.g)
      BY <2>2, OutcomeIs DEF Ok
    <2> QED
      BY <1>2, <2>1, <2>3, TearDownDoes, Zenon DEF Clean, Quiet
  <1> QED
    BY <1>3, <1>4, Zenon

LEMMA StopDoes ==
    ASSUME NEW g, EInv(g), Quiet(g), NEW o \in BackendStop(g)
    PROVE  EInv(o.g) /\ Quiet(o.g) /\ (o.r = "ok" => Clean(o.g))
  <1>1. \/ ~g.started /\ o = Outcome(g, "ok")
        \/ g.infl = "none" /\ o \in StopRest(g)
        \/ /\ g.infl # "none"
           /\ \E p \in Reaped(g) : \/ p.r = "timeout" /\ o = p
                                   \/ p.r # "timeout" /\ o \in StopRest(p.g)
    BY Zenon DEF BackendStop, Ok
  <1>2. CASE ~g.started /\ o = Outcome(g, "ok")
    BY <1>2, OutcomeIs DEF EInv, Clean
  <1>3. CASE g.infl = "none" /\ o \in StopRest(g)
    BY <1>3, StopRestDoes, Zenon
  <1>4. ASSUME g.infl # "none", NEW p \in Reaped(g),
               \/ p.r = "timeout" /\ o = p
               \/ p.r # "timeout" /\ o \in StopRest(p.g)
        PROVE  EInv(o.g) /\ Quiet(o.g) /\ (o.r = "ok" => Clean(o.g))
    <2>1. EInv(p.g) /\ Quiet(p.g) /\ (p.r # "timeout" => p.g.infl = "none")
      BY <1>4, ReapedDoes, Zenon
    <2> QED
      BY <1>4, <2>1, StopRestDoes, Zenon
  <1> QED
    BY <1>1, <1>2, <1>3, <1>4, Zenon

-----------------------------------------------------------------------------
(* What one call works on, and the session. *)

(* The outcome of an operation has a world and a result. *)
IsResult(o) == o = [f \in {"w", "r"} |-> o[f]]

LEMMA ReturnsIs ==
    ASSUME NEW w, NEW r, NEW o \in Returns(w, r)
    PROVE  IsResult(o) /\ o.w = w /\ o.r = r
  BY DEF Returns, IsResult

LEMMA Recast ==
    ASSUME NEW o, IsResult(o), NEW x
    PROVE  IsResult(Set(o, "r", x)) /\ Set(o, "r", x).w = o.w /\ Set(o, "r", x).r = x
  BY Zenon DEF IsResult, Set

LEMMA WithG ==
    ASSUME NEW w, IsWorld(w), NEW v
    PROVE  LET u == Set(w, "g", v)
           IN  IsWorld(u) /\ u.g = v /\ u.s = w.s /\ u.b = w.b /\ u.t = w.t /\ u.n = w.n
  BY Zenon DEF IsWorld, WFields, Set

LEMMA WithS ==
    ASSUME NEW w, IsWorld(w), NEW v
    PROVE  LET u == Set(w, "s", v)
           IN  IsWorld(u) /\ u.g = w.g /\ u.s = v /\ u.b = w.b /\ u.t = w.t /\ u.n = w.n
  BY Zenon DEF IsWorld, WFields, Set

LEMMA WithB ==
    ASSUME NEW w, IsWorld(w), NEW v
    PROVE  LET u == Set(w, "b", v)
           IN  IsWorld(u) /\ u.g = w.g /\ u.s = w.s /\ u.b = v /\ u.t = w.t /\ u.n = w.n
  BY Zenon DEF IsWorld, WFields, Set

LEMMA WithT ==
    ASSUME NEW w, IsWorld(w), NEW v
    PROVE  LET u == Set(w, "t", v)
           IN  IsWorld(u) /\ u.g = w.g /\ u.s = w.s /\ u.b = w.b /\ u.t = v /\ u.n = w.n
  BY Zenon DEF IsWorld, WFields, Set

LEMMA WithN ==
    ASSUME NEW w, IsWorld(w), NEW v
    PROVE  LET u == Set(w, "n", v)
           IN  IsWorld(u) /\ u.g = w.g /\ u.s = w.s /\ u.b = w.b /\ u.t = w.t /\ u.n = v
  BY Zenon DEF IsWorld, WFields, Set

(* The operations of the session work on the engine and the session only. *)
Sessioned(w, v) == SInv(v) /\ v.b = w.b /\ v.t = w.t /\ v.n = w.n

LEMMA SetState ==
    ASSUME NEW s \in Session, NEW x \in {"empty", "active", "pending"}
    PROVE  Set(s, "st", x) \in Session /\ Set(s, "st", x).st = x
  BY Zenon DEF Session, Set

LEMMA EmptyIs == EmptySession \in Session /\ EmptySession.st = "empty"
  BY Zenon DEF EmptySession, Session

LEMMA OnIs ==
    ASSUME NEW w, IsWorld(w), NEW S, NEW o \in On(w, S)
    PROVE  \E a \in S : /\ IsResult(o) /\ o.r = a.r /\ IsWorld(o.w) /\ o.w.g = a.g
                        /\ o.w.s = w.s /\ o.w.b = w.b /\ o.w.t = w.t /\ o.w.n = w.n
  <1>1. PICK a \in S : o = [w |-> Set(w, "g", a.g), r |-> a.r]
    BY Zenon DEF On, Set
  <1>2. o.w = Set(w, "g", a.g) /\ o.r = a.r /\ IsResult(o)
    BY <1>1, Zenon DEF IsResult
  <1>3. /\ IsWorld(o.w) /\ o.w.g = a.g
        /\ o.w.s = w.s /\ o.w.b = w.b /\ o.w.t = w.t /\ o.w.n = w.n
    BY <1>2, WithG
  <1> QED
    BY <1>2, <1>3, Zenon

LEMMA WithState ==
    ASSUME NEW w, IsWorld(w), w.s \in Session, NEW x \in {"empty", "active", "pending"}
    PROVE  LET u == [w EXCEPT !.s.st = x]
           IN  /\ IsWorld(u) /\ u.s \in Session /\ u.s.st = x /\ u.g = w.g /\ u.b = w.b
               /\ u.t = w.t /\ u.n = w.n
  <1> DEFINE s == Set(w.s, "st", x)
             u == Set(w, "s", s)
  <1>1. s \in Session /\ s.st = x
    BY SetState, Zenon
  <1>2. [w EXCEPT !.s.st = x] = u
    BY Zenon DEF Set
  <1> HIDE DEF s
  <1>3. IsWorld(u) /\ u.s = s /\ u.g = w.g /\ u.b = w.b /\ u.t = w.t /\ u.n = w.n
    BY WithS, ZenonT(60)
  <1> QED
    BY <1>1, <1>2, <1>3, Zenon

LEMMA RestoreExactDoes ==
    ASSUME NEW w, IsWorld(w), EInv(w.g), w.s \in Session, NEW o \in RestoreExact(w)
    PROVE  /\ IsResult(o) /\ Sessioned(w, o.w) /\ o.r \in {"ok", "err"}
           /\ o.r = "ok" <=> o.w.s.st = "empty"
  <1> DEFINE p == [w EXCEPT !.s.st = "pending"]
             After(x) == UNION {IF v.r # "ok" \/ ~Exact(v.w.g) THEN Returns(v.w, "err")
                                ELSE Returns([v.w EXCEPT !.s = EmptySession], "ok") :
                                v \in On(x, CallbackSnapshot(x.g))}
  <1>1. PICK a \in On(p, CallbackRestore(w.g)) :
           o \in IF a.r # "ok" THEN Returns(a.w, "err") ELSE After(a.w)
    BY Zenon DEF RestoreExact, Bind
  <1>2. /\ IsWorld(p) /\ p.s \in Session /\ p.s.st = "pending" /\ p.b = w.b /\ p.t = w.t
        /\ p.n = w.n
    BY WithState, Zenon
  <1> HIDE DEF p, After
  <1>3. PICK k \in CallbackRestore(w.g) :
           /\ a.r = k.r /\ IsWorld(a.w) /\ a.w.g = k.g
           /\ a.w.s = p.s /\ a.w.b = p.b /\ a.w.t = p.t /\ a.w.n = p.n
    BY <1>1, <1>2, OnIs
  <1>4. EInv(k.g) /\ (k.r = "ok" => Clean(k.g))
    BY CallbackRestoreDoes, Zenon
  <1>5. CASE a.r # "ok"
    <2>1. IsResult(o) /\ o.w = a.w /\ o.r = "err"
      BY <1>1, <1>5, ReturnsIs, Zenon
    <2> QED
      BY <1>2, <1>3, <1>4, <2>1, Zenon DEF Sessioned, SInv
  <1>6. CASE a.r = "ok"
    <2>1. PICK v \in On(a.w, CallbackSnapshot(a.w.g)) :
              o \in IF v.r # "ok" \/ ~Exact(v.w.g) THEN Returns(v.w, "err")
                    ELSE Returns(Set(v.w, "s", EmptySession), "ok")
      BY <1>1, <1>6, Zenon DEF After, Set
    <2>2. PICK c \in CallbackSnapshot(a.w.g) :
              /\ v.r = c.r /\ IsWorld(v.w) /\ v.w.g = c.g
              /\ v.w.s = p.s /\ v.w.b = p.b /\ v.w.t = p.t /\ v.w.n = p.n
      BY <1>3, <2>1, OnIs, SMTT(20)
    <2>3. EInv(c.g) /\ (c.r = "ok" => Clean(c.g))
      BY <1>3, <1>4, CallbackSnapshotDoes, Zenon
    <2>4. CASE o \in Returns(v.w, "err")
      <3>1. IsResult(o) /\ o.w = v.w /\ o.r = "err"
        BY <2>4, ReturnsIs, Zenon
      <3> QED
        BY <1>2, <2>2, <2>3, <3>1, Zenon DEF Sessioned, SInv
    <2>5. CASE v.r = "ok" /\ o \in Returns(Set(v.w, "s", EmptySession), "ok")
      <3> DEFINE e == Set(v.w, "s", EmptySession)
      <3>1. IsResult(o) /\ o.w = e /\ o.r = "ok"
        BY <2>5, ReturnsIs
      <3>2. /\ IsWorld(e) /\ e.g = c.g /\ e.s = EmptySession /\ e.b = w.b /\ e.t = w.t
            /\ e.n = w.n
        BY <1>2, <2>2, WithS, SMTT(20)
      <3>3. EInv(e.g) /\ Quiet(e.g)
        BY <2>2, <2>3, <2>5, <3>2, Zenon DEF Quiet, Clean
      <3> HIDE DEF e
      <3> QED
        BY <3>1, <3>2, <3>3, EmptyIs, Zenon DEF Sessioned, SInv
    <2> QED
      BY <2>1, <2>4, <2>5, Zenon
  <1> QED
    BY <1>5, <1>6, Zenon

LEMMA RestoreAndFailDoes ==
    ASSUME NEW w, IsWorld(w), EInv(w.g), w.s \in Session, NEW o \in RestoreAndFail(w)
    PROVE  IsResult(o) /\ Sessioned(w, o.w) /\ o.r = "err"
  <1>1. PICK e \in RestoreExact(w) : o = Set(e, "r", "err")
    BY Zenon DEF RestoreAndFail, Set
  <1> QED
    BY <1>1, RestoreExactDoes, Recast

LEMMA SessionAcquireDoes ==
    ASSUME NEW w, SInv(w), NEW o \in SessionAcquire(w)
    PROVE  /\ IsResult(o) /\ Sessioned(w, o.w)
           /\ o.r = "ok" => o.w.s.st # "empty"
  <1> DEFINE Configured(x) ==
                 UNION {RestoreAndFail(c.w)
                        \cup IF c.r = "ok" THEN Returns([c.w EXCEPT !.s.st = "active"], "ok")
                             ELSE {} :
                        c \in On([x EXCEPT !.s.st = "pending"], CallbackConfigure(x.g))}
  <1>1. CASE w.s.st # "empty"
    <2>1. o \in Returns(w, "err")
      BY <1>1, Zenon DEF SessionAcquire
    <2> QED
      BY <2>1, ReturnsIs DEF Sessioned
  <1>2. CASE w.s.st = "empty"
    <2>1. PICK a \in On(w, CallbackSnapshot(w.g)) :
             o \in IF a.r # "ok" THEN Returns(a.w, "err")
                   ELSE Returns(a.w, "err") \cup Configured(a.w)
      BY <1>2, Zenon DEF SessionAcquire, Bind
    <2> HIDE DEF Configured
    <2>2. PICK k \in CallbackSnapshot(w.g) :
             /\ a.r = k.r /\ IsWorld(a.w) /\ a.w.g = k.g
             /\ a.w.s = w.s /\ a.w.b = w.b /\ a.w.t = w.t /\ a.w.n = w.n
      BY <2>1, OnIs DEF SInv
    <2>3. EInv(k.g) /\ (k.r = "ok" => Clean(k.g)) /\ Quiet(k.g)
      BY <1>2, CallbackSnapshotDoes, Zenon DEF SInv
    <2>4. CASE o \in Returns(a.w, "err")
      <3>1. IsResult(o) /\ o.w = a.w /\ o.r = "err"
        BY <2>4, ReturnsIs, Zenon
      <3> QED
        BY <2>2, <2>3, <3>1, Zenon DEF Sessioned, SInv
    <2>5. CASE a.r = "ok" /\ o \in Configured(a.w)
      <3> DEFINE p == [a.w EXCEPT !.s.st = "pending"]
      <3>1. PICK c \in On(p, CallbackConfigure(a.w.g)) :
               o \in RestoreAndFail(c.w)
                     \cup IF c.r = "ok" THEN Returns([c.w EXCEPT !.s.st = "active"], "ok") ELSE {}
        BY <2>5, Zenon DEF Configured
      <3>2. IsWorld(p) /\ p.s \in Session /\ p.b = w.b /\ p.t = w.t /\ p.n = w.n
        BY <2>2, WithState, Zenon DEF SInv
      <3> HIDE DEF p
      <3>3. PICK d \in CallbackConfigure(a.w.g) :
               /\ c.r = d.r /\ IsWorld(c.w) /\ c.w.g = d.g
               /\ c.w.s = p.s /\ c.w.b = p.b /\ c.w.t = p.t /\ c.w.n = p.n
        BY <3>1, <3>2, OnIs
      <3>4. EInv(d.g)
        BY <2>2, <2>3, <2>5, CallbackConfigureDoes, Zenon
      <3>5. CASE o \in RestoreAndFail(c.w)
        <4>1. IsResult(o) /\ Sessioned(c.w, o.w) /\ o.r = "err"
          BY <3>2, <3>3, <3>4, <3>5, RestoreAndFailDoes, Zenon
        <4> QED
          BY <3>2, <3>3, <4>1, Zenon DEF Sessioned
      <3>6. CASE o \in Returns([c.w EXCEPT !.s.st = "active"], "ok")
        <4> DEFINE u == [c.w EXCEPT !.s.st = "active"]
        <4>1. IsResult(o) /\ o.w = u /\ o.r = "ok"
          BY <3>6, ReturnsIs
        <4>2. /\ IsWorld(u) /\ u.s \in Session /\ u.s.st = "active" /\ u.g = c.w.g
              /\ u.b = c.w.b /\ u.t = c.w.t /\ u.n = c.w.n
          BY <3>2, <3>3, WithState, Zenon
        <4> HIDE DEF u
        <4> QED
          BY <3>2, <3>3, <3>4, <4>1, <4>2, Zenon DEF Sessioned, SInv
      <3> QED
        BY <3>1, <3>5, <3>6, Zenon
    <2> QED
      BY <2>1, <2>4, <2>5, Zenon
  <1> QED
    BY <1>1, <1>2, Zenon

(* Once empty a session stays empty, whatever is done to it but Acquire. *)
LEMMA SessionReadDoes ==
    ASSUME NEW w, SInv(w), NEW o \in SessionRead(w)
    PROVE  /\ IsResult(o) /\ Sessioned(w, o.w)
           /\ w.s.st = "empty" => o.w.s.st = "empty"
  <1>1. \/ o \in Returns(w, "err")
        \/ w.s.st = "active" /\ o \in RestoreAndFail(w)
        \/ /\ w.s.st = "active"
           /\ \E a \in On(w, CallbackRead(w.g)) :
                 o \in RestoreAndFail(a.w) \cup IF a.r = "ok" THEN Returns(a.w, "ok") ELSE {}
    BY Zenon DEF SessionRead, Bind
  <1>2. CASE o \in Returns(w, "err")
    BY <1>2, ReturnsIs, Zenon DEF Sessioned
  <1>3. CASE w.s.st = "active" /\ o \in RestoreAndFail(w)
    BY <1>3, RestoreAndFailDoes, Zenon DEF SInv
  <1>4. ASSUME w.s.st = "active", NEW a \in On(w, CallbackRead(w.g)),
               o \in RestoreAndFail(a.w) \cup IF a.r = "ok" THEN Returns(a.w, "ok") ELSE {}
        PROVE  IsResult(o) /\ Sessioned(w, o.w)
    <2>1. PICK k \in CallbackRead(w.g) :
             /\ a.r = k.r /\ IsWorld(a.w) /\ a.w.g = k.g
             /\ a.w.s = w.s /\ a.w.b = w.b /\ a.w.t = w.t /\ a.w.n = w.n
      BY OnIs DEF SInv
    <2>2. EInv(k.g)
      BY CallbackReadDoes, Zenon DEF SInv
    <2>3. CASE o \in RestoreAndFail(a.w)
      <3>1. IsResult(o) /\ Sessioned(a.w, o.w)
        BY <2>1, <2>2, <2>3, RestoreAndFailDoes, Zenon DEF SInv
      <3> QED
        BY <2>1, <3>1, Zenon DEF Sessioned
    <2>4. CASE o \in Returns(a.w, "ok")
      <3>1. IsResult(o) /\ o.w = a.w
        BY <2>4, ReturnsIs, Zenon
      <3> QED
        BY <1>4, <2>1, <2>2, <3>1, Zenon DEF Sessioned, SInv
    <2> QED
      BY <1>4, <2>3, <2>4, Zenon
  <1> QED
    BY <1>1, <1>2, <1>3, <1>4, Zenon

LEMMA SessionRestoreDoes ==
    ASSUME NEW w, SInv(w), NEW o \in SessionRestore(w)
    PROVE  /\ IsResult(o) /\ Sessioned(w, o.w)
           /\ w.s.st = "empty" => o.w.s.st = "empty"
           /\ o.r = "ok" => o.w.s.st = "empty"
  <1>1. CASE w.s.st = "empty"
    <2>1. o \in Returns(w, "err")
      BY <1>1, Zenon DEF SessionRestore
    <2> QED
      BY <1>1, <2>1, ReturnsIs, Zenon DEF Sessioned
  <1>2. CASE w.s.st # "empty"
    BY <1>2, RestoreExactDoes, Zenon DEF SessionRestore, SInv
  <1> QED
    BY <1>1, <1>2, Zenon

LEMMA SessionWatchdogDoes ==
    ASSUME NEW w, SInv(w), NEW o \in SessionWatchdog(w)
    PROVE  /\ IsResult(o) /\ Sessioned(w, o.w)
           /\ w.s.st = "empty" => o.w.s.st = "empty"
           /\ o.r = "restored" => o.w.s.st = "empty"
           /\ o.w.s.st = "empty" /\ w.s.st # "empty" => o.r = "restored"
  <1>1. \/ o \in Returns(w, "ok")
        \/ /\ w.s.st # "empty"
           /\ \E e \in RestoreExact(w) : o = Set(e, "r", IF e.r = "ok" THEN "restored" ELSE e.r)
    BY Zenon DEF SessionWatchdog, Set
  <1>2. CASE o \in Returns(w, "ok")
    BY <1>2, ReturnsIs DEF Sessioned
  <1>3. ASSUME w.s.st # "empty", NEW e \in RestoreExact(w),
               o = Set(e, "r", IF e.r = "ok" THEN "restored" ELSE e.r)
        PROVE  /\ IsResult(o) /\ Sessioned(w, o.w)
               /\ o.r = "restored" <=> o.w.s.st = "empty"
    <2>1. /\ IsResult(e) /\ Sessioned(w, e.w) /\ e.r \in {"ok", "err"}
          /\ e.r = "ok" <=> e.w.s.st = "empty"
      BY RestoreExactDoes, Zenon DEF SInv
    <2>2. IsResult(o) /\ o.w = e.w /\ o.r = IF e.r = "ok" THEN "restored" ELSE e.r
      BY <1>3, <2>1, Recast, Zenon
    <2> QED
      BY <2>1, <2>2, Zenon
  <1> QED
    BY <1>1, <1>2, <1>3, Zenon

-----------------------------------------------------------------------------
(* The bridge: the operations leave the transport and the reference alone. *)
Bridged(w, v) == BInv(v) /\ v.t = w.t /\ v.n = w.n

(* The bridge of w replaced by b, when the session of w allows b. *)
LEMMA BridgePut ==
    ASSUME NEW w, SInv(w), NEW b \in Bridge, b.lease <=> b.held,
           w.s.st # "empty" => b.held /\ b.active
    PROVE  LET u == Set(w, "b", b) IN Bridged(w, u) /\ u.b = b /\ u.s = w.s /\ u.g = w.g
  <1> DEFINE u == Set(w, "b", b)
  <1>1. IsWorld(u) /\ u.g = w.g /\ u.s = w.s /\ u.b = b /\ u.t = w.t /\ u.n = w.n
    BY WithB, Zenon DEF SInv
  <1> HIDE DEF u
  <1>2. Bridged(w, u)
    BY <1>1, Zenon DEF Bridged, BInv, SInv
  <1> QED
    BY <1>1, <1>2, Zenon DEF u

LEMMA UnleasedIs ==
    ASSUME NEW b \in Bridge, b.lease <=> b.held
    PROVE  /\ Unleased(b) \in Bridge /\ ~Unleased(b).held /\ ~Unleased(b).lease
           /\ Unleased(b).auto = b.auto /\ Unleased(b).orphan = b.orphan
  BY Zenon DEF Unleased, Bridge

LEMMA RememberDoes ==
    ASSUME NEW w, SInv(w), w.b \in Bridge, w.b.lease <=> w.b.held, w.s.st = "empty"
    PROVE  Bridged(w, Remember(w))
  <1> DEFINE o == [w.b EXCEPT !.active = FALSE, !.orphan = FALSE, !.auto = FALSE]
             a == [w.b EXCEPT !.active = FALSE, !.auto = TRUE]
             b == IF w.b.orphan THEN Unleased(o) ELSE a
  <1>1. Remember(w) = Set(w, "b", b)
    BY Zenon DEF Remember, Set
  <1>2. o \in Bridge /\ (o.lease <=> o.held)
    BY Zenon DEF Bridge
  <1>3. a \in Bridge /\ (a.lease <=> a.held)
    BY Zenon DEF Bridge
  <1> HIDE DEF o, a
  <1>4. b \in Bridge /\ (b.lease <=> b.held)
    BY <1>2, <1>3, UnleasedIs, Zenon
  <1> HIDE DEF b
  <1> QED
    BY <1>1, <1>4, BridgePut, Zenon

LEMMA BridgeAcquireDoes ==
    ASSUME NEW w, BInv(w), NEW o \in BridgeAcquire(w)
    PROVE  IsResult(o) /\ Bridged(w, o.w)
  <1> DEFINE l == [w EXCEPT !.b.held = TRUE, !.b.lease = TRUE]
             h == [w.b EXCEPT !.held = TRUE, !.lease = TRUE]
             B(a) == IF a.r = "ok" THEN [a.w.b EXCEPT !.active = TRUE]
                     ELSE IF a.w.s.st # "empty"
                     THEN [a.w.b EXCEPT !.active = TRUE, !.orphan = TRUE]
                     ELSE Unleased(a.w.b)
  <1>1. \/ o \in Returns(w, "err")
        \/ /\ w.s.st = "empty"
           /\ \E a \in SessionAcquire(l) : o \in Returns(Set(a.w, "b", B(a)), a.r)
    BY Zenon DEF BridgeAcquire, Bind, Set
  <1>2. CASE o \in Returns(w, "err")
    BY <1>2, ReturnsIs, Zenon DEF Bridged
  <1>3. ASSUME w.s.st = "empty", NEW a \in SessionAcquire(l),
               o \in Returns(Set(a.w, "b", B(a)), a.r)
        PROVE  IsResult(o) /\ Bridged(w, o.w)
    <2>1. h \in Bridge /\ h.held /\ h.lease
      BY Zenon DEF BInv, Bridge
    <2>2. l = Set(w, "b", h)
      BY Zenon DEF Set
    <2> HIDE DEF l, h
    <2>3. IsWorld(l) /\ l.g = w.g /\ l.s = w.s /\ l.b = h /\ l.t = w.t /\ l.n = w.n
      BY <2>2, WithB, Zenon DEF BInv, SInv
    <2>4. SInv(l)
      BY <2>3, Zenon DEF BInv, SInv
    <2>5. /\ Sessioned(l, a.w) /\ (a.r = "ok" => a.w.s.st # "empty")
      BY <2>4, SessionAcquireDoes, Zenon
    <2>6. SInv(a.w) /\ a.w.b = h /\ a.w.t = w.t /\ a.w.n = w.n
      BY <2>3, <2>5, Zenon DEF Sessioned
    <2>7. /\ B(a) \in Bridge /\ (B(a).lease <=> B(a).held)
          /\ a.w.s.st # "empty" => B(a).held /\ B(a).active
      <3>1. CASE a.r = "ok"
        <4> DEFINE x == [h EXCEPT !.active = TRUE]
        <4>1. x \in Bridge /\ x.lease /\ x.held /\ x.active
          BY <2>1, Zenon DEF Bridge
        <4>2. B(a) = x
          BY <2>6, <3>1, Zenon
        <4> QED
          BY <4>1, <4>2, Zenon
      <3>2. CASE a.r # "ok" /\ a.w.s.st # "empty"
        <4> DEFINE x == [h EXCEPT !.active = TRUE, !.orphan = TRUE]
        <4>1. x \in Bridge /\ x.lease /\ x.held /\ x.active
          BY <2>1, Zenon DEF Bridge
        <4>2. B(a) = x
          BY <2>6, <3>2, Zenon
        <4> QED
          BY <4>1, <4>2, Zenon
      <3>3. CASE a.r # "ok" /\ a.w.s.st = "empty"
        BY <2>1, <2>6, <3>3, UnleasedIs, Zenon
      <3> QED
        BY <3>1, <3>2, <3>3, Zenon
    <2> HIDE DEF B
    <2>8. IsResult(o) /\ o.w = Set(a.w, "b", B(a))
      BY <1>3, ReturnsIs
    <2>9. Bridged(a.w, o.w)
      BY <2>6, <2>7, <2>8, BridgePut, Zenon
    <2> QED
      BY <2>6, <2>8, <2>9, Zenon DEF Bridged
  <1> QED
    BY <1>1, <1>2, <1>3, Zenon

LEMMA SessionedBridged ==
    ASSUME NEW w, BInv(w), NEW v, Sessioned(w, v), w.s.st = "empty" => v.s.st = "empty"
    PROVE  Bridged(w, v)
  BY Zenon DEF Sessioned, Bridged, BInv

(* The session is empty and the bridge forgets it. *)
LEMMA SessionedRemembered ==
    ASSUME NEW w, BInv(w), NEW v, Sessioned(w, v), v.s.st = "empty"
    PROVE  Bridged(w, Remember(v))
  <1>1. Bridged(v, Remember(v))
    BY RememberDoes, Zenon DEF Sessioned, BInv
  <1> QED
    BY <1>1, Zenon DEF Sessioned, Bridged

(* The session is empty and the bridge gives the lease back. *)
LEMMA SessionedUnleased ==
    ASSUME NEW w, BInv(w), NEW v, Sessioned(w, v), v.s.st = "empty",
           NEW b \in Bridge, b.lease <=> b.held
    PROVE  Bridged(w, Set(v, "b", Unleased(b)))
  <1>1. Unleased(b) \in Bridge /\ (Unleased(b).lease <=> Unleased(b).held)
    BY UnleasedIs, Zenon
  <1>2. Bridged(v, Set(v, "b", Unleased(b)))
    BY <1>1, BridgePut, Zenon DEF Sessioned
  <1> QED
    BY <1>2, Zenon DEF Sessioned, Bridged

LEMMA BridgeReadDoes ==
    ASSUME NEW w, BInv(w), NEW o \in BridgeRead(w)
    PROVE  IsResult(o) /\ Bridged(w, o.w)
  <1>1. \/ o \in Returns(w, "err")
        \/ \E a \in SessionRead(w) :
              \/ a.w.s.st = "empty" /\ o \in Returns(Remember(a.w), a.r)
              \/ o \in Returns(a.w, a.r)
    BY Zenon DEF BridgeRead, Bind
  <1>2. CASE o \in Returns(w, "err")
    BY <1>2, ReturnsIs, Zenon DEF Bridged
  <1>3. ASSUME NEW a \in SessionRead(w)
        PROVE  Sessioned(w, a.w) /\ (w.s.st = "empty" => a.w.s.st = "empty")
    BY SessionReadDoes, Zenon DEF BInv
  <1>4. ASSUME NEW a \in SessionRead(w), a.w.s.st = "empty", o \in Returns(Remember(a.w), a.r)
        PROVE  IsResult(o) /\ Bridged(w, o.w)
    BY <1>3, <1>4, ReturnsIs, SessionedRemembered
  <1>5. ASSUME NEW a \in SessionRead(w), o \in Returns(a.w, a.r)
        PROVE  IsResult(o) /\ Bridged(w, o.w)
    BY <1>3, <1>5, ReturnsIs, SessionedBridged
  <1> QED
    BY <1>1, <1>2, <1>4, <1>5, Zenon

LEMMA BridgeReleaseDoes ==
    ASSUME NEW w, BInv(w), NEW o \in BridgeRelease(w)
    PROVE  IsResult(o) /\ Bridged(w, o.w)
  <1> DEFINE au == [w.b EXCEPT !.auto = FALSE]
             ac(b) == [b EXCEPT !.active = FALSE]
  <1>1. \/ o \in Returns(w, "err")
        \/ ~w.b.active /\ o \in Returns(Set(w, "b", Unleased(au)), "ok")
        \/ \E a \in SessionRestore(w) :
              \/ a.r = "ok" /\ o \in Returns(Set(a.w, "b", Unleased(ac(a.w.b))), a.r)
              \/ o \in Returns(a.w, a.r)
    BY Zenon DEF BridgeRelease, Bind, Set
  <1>2. CASE o \in Returns(w, "err")
    BY <1>2, ReturnsIs, Zenon DEF Bridged
  <1>3. CASE ~w.b.active /\ o \in Returns(Set(w, "b", Unleased(au)), "ok")
    <2>1. au \in Bridge /\ (au.lease <=> au.held)
      BY Zenon DEF BInv, Bridge
    <2>2. Sessioned(w, w) /\ w.s.st = "empty"
      BY <1>3, Zenon DEF Sessioned, BInv
    <2> HIDE DEF au
    <2>3. Bridged(w, Set(w, "b", Unleased(au)))
      BY <2>1, <2>2, SessionedUnleased, Zenon
    <2> QED
      BY <1>3, <2>3, ReturnsIs
  <1>4. ASSUME NEW a \in SessionRestore(w)
        PROVE  /\ Sessioned(w, a.w) /\ (w.s.st = "empty" => a.w.s.st = "empty")
               /\ a.r = "ok" => a.w.s.st = "empty"
    BY SessionRestoreDoes, Zenon DEF BInv
  <1>5. ASSUME NEW a \in SessionRestore(w), a.r = "ok",
               o \in Returns(Set(a.w, "b", Unleased(ac(a.w.b))), a.r)
        PROVE  IsResult(o) /\ Bridged(w, o.w)
    <2> DEFINE b == ac(w.b)
    <2>1. b \in Bridge /\ (b.lease <=> b.held)
      BY Zenon DEF BInv, Bridge
    <2> HIDE DEF ac
    <2>2. a.w.b = w.b
      BY <1>4, Zenon DEF Sessioned
    <2>3. Bridged(w, Set(a.w, "b", Unleased(b)))
      BY <1>4, <1>5, <2>1, SessionedUnleased, Zenon
    <2> QED
      BY <1>5, <2>2, <2>3, ReturnsIs, ZenonT(60)
  <1>6. ASSUME NEW a \in SessionRestore(w), o \in Returns(a.w, a.r)
        PROVE  IsResult(o) /\ Bridged(w, o.w)
    BY <1>4, <1>6, ReturnsIs, SessionedBridged, SMTT(20)
  <1> QED
    BY <1>1, <1>2, <1>3, <1>5, <1>6, Zenon

LEMMA BridgeWatchdogDoes ==
    ASSUME NEW w, BInv(w), NEW o \in BridgeWatchdog(w)
    PROVE  IsResult(o) /\ Bridged(w, o.w)
  <1>1. PICK a \in SessionWatchdog(w) :
              o \in Returns(IF a.r = "restored" THEN Remember(a.w) ELSE a.w, a.r)
    BY Zenon DEF BridgeWatchdog, Bind
  <1>2. /\ Sessioned(w, a.w) /\ (w.s.st = "empty" => a.w.s.st = "empty")
        /\ a.r = "restored" => a.w.s.st = "empty"
    BY SessionWatchdogDoes, Zenon DEF BInv
  <1>3. CASE a.r = "restored"
    BY <1>1, <1>2, <1>3, ReturnsIs, SessionedRemembered
  <1>4. CASE a.r # "restored"
    BY <1>1, <1>2, <1>4, ReturnsIs, SessionedBridged
  <1> QED
    BY <1>3, <1>4, Zenon

LEMMA RetryOrphanRestoreDoes ==
    ASSUME NEW w, BInv(w), NEW o \in RetryOrphanRestore(w)
    PROVE  IsResult(o) /\ Bridged(w, o.w)
  <1> DEFINE ao(b) == [b EXCEPT !.active = FALSE, !.orphan = FALSE]
  <1>1. PICK a \in SessionRestore(w) :
              \/ a.r = "ok" /\ o \in Returns(Set(a.w, "b", Unleased(ao(a.w.b))), a.r)
              \/ o \in Returns(a.w, a.r)
    BY Zenon DEF RetryOrphanRestore, Bind, Set
  <1>2. /\ Sessioned(w, a.w) /\ (w.s.st = "empty" => a.w.s.st = "empty")
        /\ a.r = "ok" => a.w.s.st = "empty"
    BY SessionRestoreDoes, Zenon DEF BInv
  <1>3. CASE a.r = "ok" /\ o \in Returns(Set(a.w, "b", Unleased(ao(a.w.b))), a.r)
    <2> DEFINE b == ao(w.b)
    <2>1. b \in Bridge /\ (b.lease <=> b.held)
      BY Zenon DEF BInv, Bridge
    <2> HIDE DEF ao
    <2>2. a.w.b = w.b
      BY <1>2, Zenon DEF Sessioned
    <2>3. Bridged(w, Set(a.w, "b", Unleased(b)))
      BY <1>2, <1>3, <2>1, SessionedUnleased, Zenon
    <2> QED
      BY <1>3, <2>2, <2>3, ReturnsIs, ZenonT(60)
  <1>4. CASE o \in Returns(a.w, a.r)
    BY <1>2, <1>4, ReturnsIs, SessionedBridged
  <1> QED
    BY <1>1, <1>3, <1>4, Zenon

-----------------------------------------------------------------------------
(* The transport. *)

LEMMA TGet ==
    ASSUME NEW t, IsTransport(t), NEW f \in TFields, NEW v
    PROVE  /\ IsTransport(Set(t, f, v))
           /\ \A h \in TFields : Set(t, f, v)[h] = IF h = f THEN v ELSE t[h]
  BY Zenon DEF IsTransport, Set

(* The session is the same; so are its latch and its reference. *)
SameSession(t, v) ==
    /\ IsTransport(v) /\ v.owner = t.owner /\ v.gen = t.gen /\ v.next = t.next
    /\ v.real = t.real
Tracked(t, v) ==
    /\ SameSession(t, v) /\ v.attempted = t.attempted
    /\ v.idValid = t.idValid /\ v.uncertain = t.uncertain

LEMMA SetUntracked ==
    ASSUME NEW t, IsTransport(t), NEW f \in {"st", "token", "proven"}, NEW v
    PROVE  /\ Tracked(t, Set(t, f, v))
           /\ Set(t, f, v).st = IF f = "st" THEN v ELSE t.st
  <1>1. f \in TFields
    BY Zenon DEF TFields
  <1>2. /\ IsTransport(Set(t, f, v))
        /\ \A h \in TFields : Set(t, f, v)[h] = IF h = f THEN v ELSE t[h]
    BY <1>1, TGet
  <1> QED
    BY <1>2, Zenon DEF Tracked, SameSession, TFields

(* One field of the transport of w replaced. *)
Put(w, f, x) == Set(w, "t", Set(w.t, f, x))

LEMMA PutIs ==
    ASSUME NEW w, IsWorld(w), IsTransport(w.t), NEW f \in {"st", "proven", "token"}, NEW x
    PROVE  /\ IsWorld(Put(w, f, x)) /\ Put(w, f, x).g = w.g /\ Put(w, f, x).s = w.s
           /\ Put(w, f, x).b = w.b /\ Put(w, f, x).n = w.n
           /\ Tracked(w.t, Put(w, f, x).t)
           /\ Put(w, f, x).t.st = IF f = "st" THEN x ELSE w.t.st
  <1> DEFINE t == Set(w.t, f, x)
             u == Set(w, "t", t)
  <1>1. Tracked(w.t, t) /\ t.st = IF f = "st" THEN x ELSE w.t.st
    BY SetUntracked
  <1> HIDE DEF t
  <1>2. IsWorld(u) /\ u.g = w.g /\ u.s = w.s /\ u.b = w.b /\ u.t = t /\ u.n = w.n
    BY WithT, Zenon
  <1>3. Put(w, f, x) = u
    BY Zenon DEF Put, t
  <1> HIDE DEF u
  <1> QED
    BY <1>1, <1>2, <1>3, Zenon

LEMMA ClearDoes ==
    ASSUME NEW w, IsWorld(w), IsTransport(w.t)
    PROVE  LET u == Clear(w)
           IN  /\ IsWorld(u) /\ u.g = w.g /\ u.n = w.n /\ u.s = EmptySession
               /\ u.b = NoBridge(w.b.lease)
               /\ IsTransport(u.t) /\ u.t.st = "idle" /\ u.t.gen = 0 /\ ~u.t.real
               /\ ~u.t.idValid /\ ~u.t.uncertain /\ u.t.attempted = w.t.attempted
               /\ u.t.next = w.t.next
  <1> DEFINE off == FALSE
  <1>0. ~off
    BY Zenon
  <1> HIDE DEF off
  <1> DEFINE t1 == Set(w.t, "st", "idle")
             t2 == Set(t1, "owner", NoThread)
             t3 == Set(t2, "gen", 0)
             t4 == Set(t3, "real", off)
             t5 == Set(t4, "token", off)
             t6 == Set(t5, "proven", off)
             t7 == Set(t6, "idValid", off)
             t8 == Set(t7, "uncertain", off)
             u1 == Set(w, "t", t8)
             u2 == Set(u1, "b", NoBridge(w.b.lease))
             u3 == Set(u2, "s", EmptySession)
  <1>1. Clear(w) = u3
    BY Zenon DEF Clear, Set, off
  <1>2. IsTransport(t1) /\ t1.st = "idle" /\ t1.attempted = w.t.attempted /\ t1.next = w.t.next
    BY TGet DEF TFields
  <1>3. IsTransport(t2) /\ t2.st = "idle" /\ t2.attempted = w.t.attempted /\ t2.next = w.t.next
    <2> HIDE DEF t1
    <2> QED BY <1>2, TGet DEF TFields
  <1>4. IsTransport(t3) /\ t3.st = "idle" /\ t3.attempted = w.t.attempted /\ t3.next = w.t.next /\ t3.gen = 0
    <2> HIDE DEF t2
    <2> QED BY <1>3, TGet DEF TFields
  <1>5. /\ IsTransport(t4) /\ t4.st = "idle" /\ t4.attempted = w.t.attempted /\ t4.next = w.t.next /\ t4.gen = 0
        /\ t4.real = off
    <2> HIDE DEF t3
    <2> QED BY <1>4, TGet DEF TFields
  <1>6. /\ IsTransport(t5) /\ t5.st = "idle" /\ t5.attempted = w.t.attempted /\ t5.next = w.t.next /\ t5.gen = 0
        /\ t5.real = off
    <2> HIDE DEF t4
    <2> QED BY <1>5, TGet, SMTT(20) DEF TFields
  <1>7. /\ IsTransport(t6) /\ t6.st = "idle" /\ t6.attempted = w.t.attempted /\ t6.next = w.t.next /\ t6.gen = 0
        /\ t6.real = off
    <2> HIDE DEF t5
    <2> QED BY <1>6, TGet, SMTT(20) DEF TFields
  <1>8. /\ IsTransport(t7) /\ t7.st = "idle" /\ t7.attempted = w.t.attempted /\ t7.next = w.t.next /\ t7.gen = 0
        /\ t7.real = off /\ t7.idValid = off
    <2> HIDE DEF t6
    <2> QED BY <1>7, TGet, SMTT(20) DEF TFields
  <1>9. /\ IsTransport(t8) /\ t8.st = "idle" /\ t8.attempted = w.t.attempted /\ t8.next = w.t.next /\ t8.gen = 0
        /\ t8.real = off /\ t8.idValid = off /\ t8.uncertain = off
    <2> HIDE DEF t7
    <2> QED BY <1>8, TGet, SMTT(20) DEF TFields
  <1> HIDE DEF t8
  <1>10. IsWorld(u1) /\ u1.g = w.g /\ u1.n = w.n /\ u1.t = t8
    BY WithT, ZenonT(60)
  <1> HIDE DEF u1
  <1>11. IsWorld(u2) /\ u2.g = w.g /\ u2.n = w.n /\ u2.t = t8 /\ u2.b = NoBridge(w.b.lease)
    BY <1>10, WithB
  <1> HIDE DEF u2
  <1>12. /\ IsWorld(u3) /\ u3.g = w.g /\ u3.n = w.n /\ u3.t = t8 /\ u3.b = NoBridge(w.b.lease)
         /\ u3.s = EmptySession
    BY <1>11, WithS
  <1> HIDE DEF u3
  <1> QED
    BY <1>0, <1>1, <1>9, <1>12, Zenon

-----------------------------------------------------------------------------
LEMMA SetUncertain ==
    ASSUME NEW t, IsTransport(t)
    PROVE  LET v == Set(t, "uncertain", TRUE)
           IN  /\ SameSession(t, v) /\ v.attempted = t.attempted
               /\ v.st = t.st /\ v.idValid = t.idValid /\ v.uncertain
  <1> DEFINE on == TRUE
  <1>1. on
    BY Zenon
  <1> HIDE DEF on
  <1>2. LET v == Set(t, "uncertain", on)
        IN  IsTransport(v) /\ \A h \in TFields : v[h] = IF h = "uncertain" THEN on ELSE t[h]
    BY TGet DEF TFields
  <1> QED
    BY <1>1, <1>2, Zenon DEF SameSession, TFields, on

LEMMA SetUnidentified ==
    ASSUME NEW t, IsTransport(t)
    PROVE  LET v == Set(t, "idValid", FALSE)
           IN  /\ SameSession(t, v) /\ v.attempted = t.attempted
               /\ v.st = t.st /\ ~v.idValid /\ v.uncertain = t.uncertain
  <1> DEFINE off == FALSE
  <1>1. ~off
    BY Zenon
  <1> HIDE DEF off
  <1>2. LET v == Set(t, "idValid", off)
        IN  IsTransport(v) /\ \A h \in TFields : v[h] = IF h = "idValid" THEN off ELSE t[h]
    BY TGet DEF TFields
  <1> QED
    BY <1>1, <1>2, Zenon DEF SameSession, TFields, off

LEMMA SetUnattempted ==
    ASSUME NEW t, IsTransport(t)
    PROVE  LET v == Set(t, "attempted", FALSE) IN SameSession(t, v) /\ ~v.attempted
  <1> DEFINE off == FALSE
  <1>1. ~off
    BY Zenon
  <1> HIDE DEF off
  <1>2. LET v == Set(t, "attempted", off)
        IN  IsTransport(v) /\ \A h \in TFields : v[h] = IF h = "attempted" THEN off ELSE t[h]
    BY TGet DEF TFields
  <1> QED
    BY <1>1, <1>2, Zenon DEF SameSession, TFields, off

LEMMA QuarantineDoes ==
    ASSUME NEW w, IsWorld(w), IsTransport(w.t)
    PROVE  LET u == Quarantine(w)
           IN  /\ IsWorld(u) /\ u.g = w.g /\ u.s = w.s /\ u.b = w.b /\ u.n = w.n
               /\ SameSession(w.t, u.t) /\ u.t.attempted = w.t.attempted
               /\ u.t.idValid = w.t.idValid /\ u.t.uncertain /\ u.t.st = "awaiting"
  <1> DEFINE t1 == Set(w.t, "uncertain", TRUE)
             u1 == Set(w, "t", t1)
             t2 == Set(u1.t, "st", "awaiting")
             u2 == Set(u1, "t", t2)
  <1>1. Quarantine(w) = u2
    BY Zenon DEF Quarantine, Set
  <1>2. /\ SameSession(w.t, t1) /\ t1.attempted = w.t.attempted
        /\ t1.idValid = w.t.idValid /\ t1.uncertain
    BY SetUncertain, Zenon
  <1> HIDE DEF t1
  <1>3. IsWorld(u1) /\ u1.g = w.g /\ u1.s = w.s /\ u1.b = w.b /\ u1.t = t1 /\ u1.n = w.n
    BY WithT, Zenon
  <1> HIDE DEF u1
  <1>4. Tracked(t1, t2) /\ t2.st = "awaiting"
    BY <1>2, <1>3, SetUntracked, ZenonT(60) DEF SameSession
  <1> HIDE DEF t2
  <1>5. IsWorld(u2) /\ u2.g = w.g /\ u2.s = w.s /\ u2.b = w.b /\ u2.t = t2 /\ u2.n = w.n
    BY <1>3, WithT
  <1> HIDE DEF u2
  <1> QED
    BY <1>1, <1>2, <1>4, <1>5, Zenon DEF SameSession, Tracked

(* The reference is given back, or in quarantine. *)
LEMMA ReleaseIdentityDoes ==
    ASSUME NEW w, IsWorld(w), EInv(w.g), IsTransport(w.t), w.t.uncertain => w.t.idValid,
           ~w.t.uncertain => w.n = IF w.t.idValid THEN 1 ELSE 0,
           NEW o \in ReleaseIdentity(w)
    PROVE  /\ IsResult(o) /\ IsWorld(o.w) /\ o.w.s = w.s /\ o.w.b = w.b
           /\ SameSession(w.t, o.w.t) /\ o.w.t.attempted = w.t.attempted
           /\ \/ o.r = "ok" /\ ~w.t.uncertain /\ o.w.g = w.g /\ o.w.n = 0
              \/ /\ o.r = "err" /\ w.t.idValid /\ o.w.t.idValid /\ o.w.t.uncertain
                 /\ o.w.t.st = "awaiting" /\ (w.t.uncertain => o.w.n = w.n)
                 /\ EInv(o.w.g) /\ (Quiet(w.g) => Quiet(o.w.g))
  <1> DEFINE fg == Set(w, "g", Faulty(w.g))
             dn == Set(w, "n", w.n - 1)
             di == Set(dn, "t", Set(dn.t, "idValid", FALSE))
  <1>1. \/ ~w.t.idValid /\ o \in Returns(w, "ok")
        \/ w.t.idValid /\ o \in Returns(Quarantine(w), "err")
        \/ w.t.idValid /\ ~w.t.uncertain /\ o \in Returns(di, "ok")
        \/ /\ w.t.idValid /\ ~w.t.uncertain /\ w.g.faults > 0
           /\ \E n \in {w.n, w.n - 1} : o \in Returns(Quarantine(Set(fg, "n", n)), "err")
    BY Zenon DEF ReleaseIdentity, Maybe, Returns, Set
  <1>2. CASE ~w.t.idValid /\ o \in Returns(w, "ok")
    BY <1>2, ReturnsIs, SMTT(20) DEF SameSession
  <1>3. CASE w.t.idValid /\ o \in Returns(Quarantine(w), "err")
    BY <1>3, ReturnsIs, QuarantineDoes, SMTT(20)
  <1>4. CASE w.t.idValid /\ ~w.t.uncertain /\ o \in Returns(di, "ok")
    <2>1. IsWorld(dn) /\ dn.g = w.g /\ dn.s = w.s /\ dn.b = w.b /\ dn.t = w.t /\ dn.n = w.n - 1
      BY WithN
    <2> HIDE DEF dn
    <2> DEFINE x == Set(w.t, "idValid", FALSE)
    <2>2. di = Set(dn, "t", x)
      BY <2>1, Zenon
    <2>3. SameSession(w.t, x) /\ x.attempted = w.t.attempted
      BY SetUnidentified, Zenon
    <2> HIDE DEF x, di
    <2>4. IsWorld(di) /\ di.g = w.g /\ di.s = w.s /\ di.b = w.b /\ di.t = x /\ di.n = w.n - 1
      BY <2>1, <2>2, WithT, ZenonT(60)
    <2>5. w.n - 1 = 0
      BY <1>4
    <2> QED
      BY <1>4, <2>3, <2>4, <2>5, ReturnsIs, SMTT(20)
  <1>5. ASSUME w.t.idValid, ~w.t.uncertain, w.g.faults > 0, NEW n \in {w.n, w.n - 1},
               o \in Returns(Quarantine(Set(fg, "n", n)), "err")
        PROVE  /\ IsResult(o) /\ IsWorld(o.w) /\ o.w.s = w.s /\ o.w.b = w.b
               /\ SameSession(w.t, o.w.t) /\ o.w.t.attempted = w.t.attempted
               /\ o.r = "err" /\ w.t.idValid /\ o.w.t.idValid /\ o.w.t.uncertain
               /\ o.w.t.st = "awaiting"
               /\ EInv(o.w.g) /\ (Quiet(w.g) => Quiet(o.w.g))
    <2> DEFINE f == Faulty(w.g)
               fn == Set(fg, "n", n)
    <2>1. EInv(f) /\ (Quiet(w.g) => Quiet(f))
      BY <1>5, FaultyDoes, SameKeeps, Zenon DEF EInv, Sound
    <2> HIDE DEF f
    <2>2. IsWorld(fg) /\ fg.g = f /\ fg.s = w.s /\ fg.b = w.b /\ fg.t = w.t
      BY WithG, Zenon DEF f
    <2> HIDE DEF fg
    <2>3. IsWorld(fn) /\ fn.g = f /\ fn.s = w.s /\ fn.b = w.b /\ fn.t = w.t
      BY <2>2, WithN, Zenon
    <2> HIDE DEF fn
    <2>4. o.w = Quarantine(fn) /\ o.r = "err" /\ IsResult(o)
      BY <1>5, ReturnsIs, SMTT(20) DEF fn
    <2> QED
      BY <1>5, <2>1, <2>3, <2>4, QuarantineDoes, SMTT(20)
  <1> QED
    BY <1>1, <1>2, <1>3, <1>4, <1>5, Zenon

-----------------------------------------------------------------------------
(* What one call does to the transport: a quarantine stays, a latch stays   *)
(* where no real event may follow another, and a session of a real event    *)
(* lasts unless it is ended.                                                *)
Obeys(w, v) ==
    /\ WInv(v)
    /\ w.t.uncertain => v.t.uncertain /\ v.n = w.n
    /\ ~safeRearm /\ w.t.attempted =>
          /\ v.t.attempted
          /\ (v.t.gen = w.t.gen /\ v.t.real = w.t.real) \/ ~v.t.real
Lasts(t, v) == v.st # "idle" /\ v.owner = t.owner /\ v.gen = t.gen /\ v.real
Ended(t, v) == safeRearm /\ t.real /\ ~Lasts(t, v)

(* The session and its reference are gone; or the reference is in quarantine. *)
Cleared(w, v) == WInv(v) /\ v.g = w.g /\ v.t.st = "idle" /\ ~v.t.real
Quarantined(w, v) ==
    /\ WInv(v) /\ SameSession(w.t, v.t) /\ v.t.attempted = w.t.attempted
    /\ v.t.uncertain /\ v.t.st = "awaiting" /\ (w.t.uncertain => v.n = w.n)

(* Nothing of a session is left but the reference on its owner. *)
Unused(w) ==
    BInv(w) /\ w.s.st = "empty" /\ ~w.b.lease /\ TRef(w.t, w.n) /\ w.t.gen # 0

LEMMA NoBridgeIs ==
    NoBridge(FALSE) \in Bridge /\ ~NoBridge(FALSE).lease /\ ~NoBridge(FALSE).held
  BY Zenon DEF NoBridge, Bridge

LEMMA ClearedIs ==
    ASSUME NEW w, IsWorld(w), EInv(w.g), Quiet(w.g), IsTransport(w.t), w.n = 0,
           w.t.next \in Nat \ {0}, w.b \in Bridge, ~w.b.lease
    PROVE  Cleared(w, Clear(w)) /\ Clear(w).t.attempted = w.t.attempted
  <1> DEFINE u == Clear(w)
  <1>1. w.b.lease = FALSE
    BY Zenon DEF Bridge
  <1>2. /\ IsWorld(u) /\ u.g = w.g /\ u.n = 0 /\ u.s = EmptySession
        /\ u.b = NoBridge(FALSE)
        /\ IsTransport(u.t) /\ u.t.st = "idle" /\ u.t.gen = 0 /\ ~u.t.real
        /\ ~u.t.idValid /\ ~u.t.uncertain /\ u.t.attempted = w.t.attempted
        /\ u.t.next = w.t.next
    BY <1>1, ClearDoes, Zenon
  <1> HIDE DEF u
  <1>3. BInv(u) /\ u.s.st = "empty" /\ ~u.b.lease
    BY <1>2, EmptyIs, NoBridgeIs, Zenon DEF BInv, SInv
  <1>4. TInv(u.t, u.n)
    BY <1>2, Zenon DEF TInv, TRef
  <1>5. Link(u)
    BY <1>3, Zenon DEF Link
  <1> QED
    BY <1>2, <1>3, <1>4, <1>5, Zenon DEF Cleared, WInv, u

LEMMA QuarantinedIs ==
    ASSUME NEW w, Unused(w), NEW o, IsWorld(o.w), o.w.s = w.s, o.w.b = w.b,
           SameSession(w.t, o.w.t), o.w.t.attempted = w.t.attempted,
           w.t.idValid, o.w.t.idValid, o.w.t.uncertain, o.w.t.st = "awaiting",
           w.t.uncertain => o.w.n = w.n, EInv(o.w.g), Quiet(w.g) => Quiet(o.w.g)
    PROVE  Quarantined(w, o.w)
  <1>1. BInv(o.w)
    BY Zenon DEF Unused, BInv, SInv
  <1>2. TInv(o.w.t, o.w.n)
    BY Zenon DEF Unused, TInv, TRef, SameSession
  <1>3. Link(o.w)
    BY Zenon DEF Unused, Link
  <1> QED
    BY <1>1, <1>2, <1>3, Zenon DEF Quarantined, WInv

LEMMA ReleaseAndClearDoes ==
    ASSUME NEW w, Unused(w), NEW o \in ReleaseAndClear(w)
    PROVE  /\ IsResult(o)
           /\ \/ /\ o.r = "done" /\ ~w.t.uncertain
                 /\ Cleared(w, o.w) /\ o.w.t.attempted = w.t.attempted
              \/ o.r = "err" /\ Quarantined(w, o.w)
  <1>1. PICK i \in ReleaseIdentity(w) :
              \/ i.r = "ok" /\ o \in Returns(Clear(i.w), "done")
              \/ i.r # "ok" /\ o = i
    BY Zenon DEF ReleaseAndClear, Bind
  <1>2. /\ IsWorld(w) /\ EInv(w.g) /\ IsTransport(w.t) /\ (w.t.uncertain => w.t.idValid)
        /\ (~w.t.uncertain => w.n = IF w.t.idValid THEN 1 ELSE 0)
        /\ Quiet(w.g) /\ w.t.next \in Nat \ {0} /\ w.b \in Bridge /\ ~w.b.lease
    BY Zenon DEF Unused, BInv, SInv, TRef
  <1>3. /\ IsResult(i) /\ IsWorld(i.w) /\ i.w.s = w.s /\ i.w.b = w.b
        /\ SameSession(w.t, i.w.t) /\ i.w.t.attempted = w.t.attempted
        /\ \/ i.r = "ok" /\ ~w.t.uncertain /\ i.w.g = w.g /\ i.w.n = 0
           \/ /\ i.r = "err" /\ w.t.idValid /\ i.w.t.idValid /\ i.w.t.uncertain
              /\ i.w.t.st = "awaiting" /\ (w.t.uncertain => i.w.n = w.n)
              /\ EInv(i.w.g) /\ (Quiet(w.g) => Quiet(i.w.g))
    BY <1>2, ReleaseIdentityDoes, Zenon
  <1>4. CASE i.r = "ok"
    <2>1. Cleared(i.w, Clear(i.w)) /\ Clear(i.w).t.attempted = i.w.t.attempted
      BY <1>2, <1>3, <1>4, ClearedIs, Zenon DEF SameSession
    <2>2. IsResult(o) /\ o.w = Clear(i.w) /\ o.r = "done"
      BY <1>1, <1>4, ReturnsIs, Zenon
    <2> QED
      BY <1>3, <1>4, <2>1, <2>2, Zenon DEF Cleared
  <1>5. CASE i.r # "ok"
    <2>1. Quarantined(w, i.w)
      BY <1>3, <1>5, QuarantinedIs, Zenon
    <2> QED
      BY <1>1, <1>3, <1>5, <2>1, Zenon
  <1> QED
    BY <1>4, <1>5, Zenon

LEMMA RearmDoes ==
    ASSUME NEW w, Unused(w), NEW o \in Rearm(w)
    PROVE  /\ IsResult(o)
           /\ \/ /\ o.r = "done" /\ ~w.t.uncertain
                 /\ Cleared(w, o.w) /\ ~o.w.t.attempted
              \/ o.r = "err" /\ Quarantined(w, o.w)
  <1>1. PICK i \in ReleaseIdentity(w) :
              \/ /\ i.r = "ok"
                 /\ o \in Returns(Clear(Set(i.w, "t", Set(i.w.t, "attempted", FALSE))), "done")
              \/ i.r # "ok" /\ o = i
    BY Zenon DEF Rearm, Bind, Set
  <1>2. /\ IsWorld(w) /\ EInv(w.g) /\ IsTransport(w.t) /\ (w.t.uncertain => w.t.idValid)
        /\ (~w.t.uncertain => w.n = IF w.t.idValid THEN 1 ELSE 0)
        /\ Quiet(w.g) /\ w.t.next \in Nat \ {0} /\ w.b \in Bridge /\ ~w.b.lease
    BY Zenon DEF Unused, BInv, SInv, TRef
  <1>3. /\ IsResult(i) /\ IsWorld(i.w) /\ i.w.s = w.s /\ i.w.b = w.b
        /\ SameSession(w.t, i.w.t) /\ i.w.t.attempted = w.t.attempted
        /\ \/ i.r = "ok" /\ ~w.t.uncertain /\ i.w.g = w.g /\ i.w.n = 0
           \/ /\ i.r = "err" /\ w.t.idValid /\ i.w.t.idValid /\ i.w.t.uncertain
              /\ i.w.t.st = "awaiting" /\ (w.t.uncertain => i.w.n = w.n)
              /\ EInv(i.w.g) /\ (Quiet(w.g) => Quiet(i.w.g))
    BY <1>2, ReleaseIdentityDoes, Zenon
  <1>4. CASE i.r = "ok"
    <2> DEFINE x == Set(i.w.t, "attempted", FALSE)
               v == Set(i.w, "t", x)
    <2>1. SameSession(i.w.t, x) /\ ~x.attempted
      BY <1>3, SetUnattempted, Zenon DEF SameSession
    <2>2. IsResult(o) /\ o.w = Clear(v) /\ o.r = "done"
      BY <1>1, <1>4, ReturnsIs, Zenon
    <2> HIDE DEF x
    <2>3. IsWorld(v) /\ v.g = w.g /\ v.s = w.s /\ v.b = w.b /\ v.t = x /\ v.n = 0
      BY <1>3, <1>4, WithT, SMTT(20)
    <2> HIDE DEF v
    <2>4. Cleared(v, Clear(v)) /\ Clear(v).t.attempted = v.t.attempted
      BY <1>2, <1>3, <2>1, <2>3, ClearedIs, ZenonT(60) DEF SameSession
    <2> QED
      BY <1>3, <1>4, <2>1, <2>2, <2>3, <2>4, Zenon DEF Cleared
  <1>5. CASE i.r # "ok"
    <2>1. Quarantined(w, i.w)
      BY <1>3, <1>5, QuarantinedIs, Zenon
    <2> QED
      BY <1>1, <1>3, <1>5, <2>1, Zenon
  <1> QED
    BY <1>4, <1>5, Zenon

-----------------------------------------------------------------------------
LEMMA QuarantinedObeys ==
    ASSUME NEW w, NEW v, Quarantined(w, v)
    PROVE  Obeys(w, v) /\ ~Ended(w.t, v.t)
  <1>1. v.t.real
    BY Zenon DEF Quarantined, WInv, TInv, TRef
  <1> QED
    BY <1>1, Zenon DEF Quarantined, Obeys, Ended, Lasts, SameSession

LEMMA ClearedObeys ==
    ASSUME NEW w, NEW v, Cleared(w, v), ~w.t.uncertain,
           ~safeRearm /\ w.t.attempted => v.t.attempted
    PROVE  Obeys(w, v)
  BY Zenon DEF Cleared, Obeys

LEMMA ObeysTracked ==
    ASSUME NEW w, NEW p, Tracked(w.t, p.t), p.n = w.n, NEW v, Obeys(p, v)
    PROVE  Obeys(w, v) /\ (Ended(w.t, v.t) => Ended(p.t, v.t))
  BY Zenon DEF Obeys, Ended, Lasts, Tracked, SameSession

LEMMA ObeysSame ==
    ASSUME NEW w, NEW v, WInv(v), Tracked(w.t, v.t), v.n = w.n, v.t.st # "idle"
    PROVE  Obeys(w, v) /\ ~Ended(w.t, v.t)
  BY Zenon DEF Obeys, Ended, Lasts, Tracked, SameSession

LEMMA ObeysItself ==
    ASSUME NEW w, WInv(w)
    PROVE  Obeys(w, w) /\ ~Ended(w.t, w.t)
  BY Zenon DEF Obeys, Ended, Lasts, WInv, TInv

LEMMA ObeysTrans ==
    ASSUME NEW w, NEW v, NEW z, Obeys(w, v), Obeys(v, z)
    PROVE  Obeys(w, z) /\ (Ended(w.t, z.t) => Ended(w.t, v.t) \/ Ended(v.t, z.t))
  BY Zenon DEF Obeys, Ended, Lasts

(* The bridge works beneath a transport that is not idle. *)
LEMMA BridgedObeys ==
    ASSUME NEW w, WInv(w), NEW v, Bridged(w, v), w.t.st \in {"active", "cleanup"}
    PROVE  Obeys(w, v) /\ ~Ended(w.t, v.t) /\ v.t.st = w.t.st
  <1>1. WInv(v)
    BY Zenon DEF WInv, Bridged, Link
  <1>2. v.t = w.t /\ v.n = w.n /\ Tracked(w.t, v.t)
    BY Zenon DEF Bridged, WInv, TInv, TRef, Tracked, SameSession
  <1> QED
    BY <1>1, <1>2, ObeysSame, Zenon

LEMMA StDoes ==
    ASSUME NEW w, WInv(w), w.t.st # "idle"
    PROVE  LET u == Put(w, "st", "cleanup")
           IN  Obeys(w, u) /\ ~Ended(w.t, u.t) /\ u.t.st = "cleanup"
  <1> DEFINE u == Put(w, "st", "cleanup")
  <1>0. IsWorld(w) /\ IsTransport(w.t)
    BY Zenon DEF WInv, BInv, SInv, TInv, TRef
  <1>1. /\ IsWorld(u) /\ u.g = w.g /\ u.s = w.s /\ u.b = w.b /\ u.n = w.n
        /\ Tracked(w.t, u.t) /\ u.t.st = "cleanup"
    BY <1>0, PutIs
  <1> HIDE DEF u
  <1>2. BInv(u)
    BY <1>1, Zenon DEF WInv, BInv, SInv
  <1>3. TInv(u.t, u.n)
    BY <1>1, Zenon DEF WInv, TInv, TRef, Tracked, SameSession
  <1>4. Link(u)
    BY <1>1, Zenon DEF Link
  <1>5. Obeys(w, u) /\ ~Ended(w.t, u.t) /\ u.t.st = "cleanup"
    BY <1>1, <1>2, <1>3, <1>4, ObeysSame, Zenon DEF WInv
  <1> QED
    BY <1>5, Zenon DEF u

(* Leave it to the cleanup. *)
LEMMA CleanupLater ==
    ASSUME NEW w, WInv(w), w.t.st # "idle",
           NEW o \in Returns([w EXCEPT !.t.st = "cleanup"], "err")
    PROVE  /\ IsResult(o) /\ o.r = "err" /\ Obeys(w, o.w) /\ ~Ended(w.t, o.w.t)
           /\ o.w.t.st = "cleanup"
  <1>1. [w EXCEPT !.t.st = "cleanup"] = Put(w, "st", "cleanup")
    BY Zenon DEF Put, Set
  <1> QED
    BY <1>1, StDoes, ReturnsIs

LEMMA ProvenIs ==
    ASSUME NEW w, WInv(w), w.t.st # "idle", Proven(w)
    PROVE  Unused(w) /\ Clean(w.g)
  <1>1. BInv(w) /\ w.s.st = "empty" /\ ~w.b.lease
    BY Zenon DEF Proven, WInv, BInv
  <1>2. TRef(w.t, w.n) /\ w.t.gen # 0
    BY Zenon DEF WInv, TInv
  <1>3. Clean(w.g)
    BY Zenon DEF Proven, Ready, RecoveryPending, HasRestoreObligation, Clean
  <1> QED
    BY <1>1, <1>2, <1>3, Zenon DEF Unused

LEMMA FinishDoes ==
    ASSUME NEW w, WInv(w), w.t.st # "idle", NEW proof, NEW o \in Finish(w, proof)
    PROVE  /\ IsResult(o) /\ Obeys(w, o.w) /\ o.r \in {"done", "err"}
           /\ Ended(w.t, o.w.t) => proof # "none"
           /\ o.r = "done" => /\ Clean(o.w.g)
                              /\ o.w.t.st = "idle" \/ (o.w.t.st = "awaiting" /\ proof # "close")
  <1> DEFINE on == TRUE
             p == Put(w, "proven", on)
             aw == Put(p, "st", "awaiting")
             nb == Set(aw, "b", NoBridge(w.b.lease))
             ns == Set(nb, "s", EmptySession)
  <1>1. \/ o \in Returns([w EXCEPT !.t.st = "cleanup"], "err")
        \/ Proven(w) /\ ~(safeRearm /\ w.t.real) /\ o \in ReleaseAndClear(p)
        \/ Proven(w) /\ safeRearm /\ w.t.real /\ Authorises(p, proof) /\ o \in Rearm(p)
        \/ /\ Proven(w) /\ safeRearm /\ w.t.real /\ ~Authorises(p, proof)
           /\ o \in Returns(ns, "done")
    BY Zenon DEF Finish, Put, Set
  <1>2. CASE o \in Returns([w EXCEPT !.t.st = "cleanup"], "err")
    BY <1>2, CleanupLater, Zenon
  <1>3. /\ IsWorld(p) /\ p.g = w.g /\ p.s = w.s /\ p.b = w.b /\ p.n = w.n
        /\ Tracked(w.t, p.t) /\ p.t.st = w.t.st
    <2> HIDE DEF on
    <2>1. IsWorld(w) /\ IsTransport(w.t)
      BY Zenon DEF WInv, BInv, SInv, TInv, TRef
    <2> QED
      BY <2>1, PutIs, Zenon
  <1> HIDE DEF p
  <1>4. Proven(w) => Unused(p) /\ Clean(p.g)
    <2> SUFFICES ASSUME Proven(w) PROVE Unused(p) /\ Clean(p.g)
      BY Zenon
    <2>1. Unused(w) /\ Clean(w.g)
      BY ProvenIs, Zenon
    <2>2. BInv(p)
      BY <1>3, <2>1, Zenon DEF Unused, BInv, SInv
    <2>3. TRef(p.t, p.n)
      BY <1>3, <2>1, Zenon DEF Unused, TRef, Tracked, SameSession
    <2> QED
      BY <1>3, <2>1, <2>2, <2>3, Zenon DEF Unused, Tracked, SameSession
  <1>5. CASE Proven(w) /\ ~(safeRearm /\ w.t.real) /\ o \in ReleaseAndClear(p)
    <2>1. /\ IsResult(o)
          /\ \/ /\ o.r = "done" /\ ~p.t.uncertain
                /\ Cleared(p, o.w) /\ o.w.t.attempted = p.t.attempted
             \/ o.r = "err" /\ Quarantined(p, o.w)
      BY <1>4, <1>5, ReleaseAndClearDoes, Zenon
    <2>2. Obeys(p, o.w)
      BY <2>1, ClearedObeys, QuarantinedObeys, Zenon
    <2>3. Obeys(w, o.w)
      BY <1>3, <2>2, ObeysTracked, Zenon
    <2>4. ~Ended(w.t, o.w.t)
      BY <1>5, Zenon DEF Ended
    <2> QED
      BY <1>4, <1>5, <2>1, <2>3, <2>4, Zenon DEF Cleared
  <1>6. CASE Proven(w) /\ safeRearm /\ w.t.real /\ Authorises(p, proof) /\ o \in Rearm(p)
    <2>1. /\ IsResult(o)
          /\ \/ o.r = "done" /\ ~p.t.uncertain /\ Cleared(p, o.w)
             \/ o.r = "err" /\ Quarantined(p, o.w)
      BY <1>4, <1>6, RearmDoes, Zenon
    <2>2. Obeys(p, o.w)
      BY <1>6, <2>1, ClearedObeys, QuarantinedObeys, Zenon
    <2>3. Obeys(w, o.w)
      BY <1>3, <2>2, ObeysTracked, Zenon
    <2>4. proof # "none"
      BY <1>6, Zenon DEF Authorises
    <2> QED
      BY <1>4, <1>6, <2>1, <2>3, <2>4, Zenon DEF Cleared
  <1>7. CASE /\ Proven(w) /\ safeRearm /\ w.t.real /\ ~Authorises(p, proof)
             /\ o \in Returns(ns, "done")
    <2>1. /\ IsWorld(aw) /\ aw.g = w.g /\ aw.s = w.s /\ aw.b = w.b /\ aw.n = w.n
          /\ Tracked(p.t, aw.t) /\ aw.t.st = "awaiting"
      <3>1. IsTransport(p.t)
        BY <1>3, Zenon DEF Tracked, SameSession
      <3> QED
        BY <1>3, <3>1, PutIs, SMTT(20)
    <2> HIDE DEF aw
    <2>2. /\ IsWorld(nb) /\ nb.g = w.g /\ nb.s = w.s /\ nb.b = NoBridge(w.b.lease)
          /\ nb.t = aw.t /\ nb.n = w.n
      BY <2>1, WithB, SMTT(20)
    <2> HIDE DEF nb
    <2>3. /\ IsWorld(ns) /\ ns.g = w.g /\ ns.s = EmptySession /\ ns.b = NoBridge(w.b.lease)
          /\ ns.t = aw.t /\ ns.n = w.n
      BY <2>2, WithS, SMTT(20)
    <2> HIDE DEF ns
    <2>4. Unused(w) /\ Clean(w.g)
      BY <1>7, ProvenIs, Zenon
    <2>5. w.b.lease = FALSE
      BY <2>4, Zenon DEF Unused, BInv, Bridge
    <2>6. BInv(ns)
      BY <2>3, <2>4, <2>5, NoBridgeIs, EmptyIs, Zenon DEF Unused, BInv, SInv
    <2>7. Tracked(w.t, ns.t) /\ ns.t.st = "awaiting"
      BY <1>3, <2>1, <2>3, Zenon DEF Tracked, SameSession
    <2>8. TInv(ns.t, ns.n)
      BY <1>7, <2>3, <2>4, <2>7, Zenon DEF Unused, TInv, TRef, Tracked, SameSession
    <2>9. Link(ns)
      BY <2>3, <2>5, NoBridgeIs, EmptyIs, Zenon DEF Link
    <2>10. Obeys(w, ns) /\ ~Ended(w.t, ns.t)
      BY <2>3, <2>6, <2>7, <2>8, <2>9, ObeysSame, Zenon DEF WInv
    <2>11. proof # "close"
      BY <1>7, Zenon DEF Authorises
    <2> QED
      BY <1>7, <2>3, <2>4, <2>7, <2>10, <2>11, ReturnsIs, SMTT(20)
  <1> QED
    BY <1>1, <1>2, <1>5, <1>6, <1>7, Zenon

LEMMA AcknowledgeDoes ==
    ASSUME NEW w, WInv(w), NEW proof, NEW o \in Acknowledge(w, proof)
    PROVE  /\ IsResult(o) /\ Obeys(w, o.w) /\ o.r \in {"done", "err"}
           /\ Ended(w.t, o.w.t) => proof # "none"
           /\ o.r = "done" => /\ Clean(o.w.g) /\ o.w.t.st = "idle" /\ ~o.w.t.attempted
  <1>1. \/ o \in Returns(w, "err")
        \/ /\ safeRearm /\ w.t.st = "awaiting" /\ Ready(w.g) /\ ~RecoveryPending(w.g)
           /\ ~HasRestoreObligation(w.g) /\ Authorises(w, proof) /\ o \in Rearm(w)
    BY Zenon DEF Acknowledge
  <1>2. CASE o \in Returns(w, "err")
    BY <1>2, ReturnsIs, ObeysItself
  <1>3. CASE /\ safeRearm /\ w.t.st = "awaiting" /\ Ready(w.g) /\ ~RecoveryPending(w.g)
             /\ ~HasRestoreObligation(w.g) /\ Authorises(w, proof) /\ o \in Rearm(w)
    <2>1. Clean(w.g)
      BY <1>3, Zenon DEF Ready, RecoveryPending, HasRestoreObligation, Clean
    <2>2. Unused(w)
      BY <1>3, Zenon DEF Unused, WInv, TInv, Link
    <2>3. /\ IsResult(o)
          /\ \/ o.r = "done" /\ ~w.t.uncertain /\ Cleared(w, o.w) /\ ~o.w.t.attempted
             \/ o.r = "err" /\ Quarantined(w, o.w)
      BY <1>3, <2>2, RearmDoes, Zenon
    <2>4. Obeys(w, o.w)
      BY <1>3, <2>3, ClearedObeys, QuarantinedObeys, Zenon
    <2>5. proof # "none"
      BY <1>3, Zenon DEF Authorises
    <2> QED
      BY <2>1, <2>3, <2>4, <2>5, Zenon DEF Cleared
  <1> QED
    BY <1>1, <1>2, <1>3, Zenon

-----------------------------------------------------------------------------
(* How a session is finished, with the proof at hand or without. *)
Finished(w, o, proof) ==
    /\ IsResult(o) /\ Obeys(w, o.w) /\ (Ended(w.t, o.w.t) => proof # "none")
    /\ o.r = "done" => /\ Clean(o.w.g)
                       /\ o.w.t.st = "idle" \/ (o.w.t.st = "awaiting" /\ proof # "close")

LEMMA FinishAfter ==
    ASSUME NEW w, NEW v, Obeys(w, v), ~Ended(w.t, v.t), v.t.st \in {"active", "cleanup"},
           NEW proof, NEW o \in Finish(v, proof)
    PROVE  Finished(w, o, proof) /\ o.r \in {"done", "err"}
  <1>1. WInv(v)
    BY Zenon DEF Obeys
  <1>2. /\ IsResult(o) /\ Obeys(v, o.w) /\ o.r \in {"done", "err"}
        /\ Ended(v.t, o.w.t) => proof # "none"
        /\ o.r = "done" => /\ Clean(o.w.g)
                           /\ o.w.t.st = "idle" \/ (o.w.t.st = "awaiting" /\ proof # "close")
    BY <1>1, FinishDoes, Zenon
  <1>3. Obeys(w, o.w) /\ (Ended(w.t, o.w.t) => Ended(w.t, v.t) \/ Ended(v.t, o.w.t))
    BY <1>2, ObeysTrans, Zenon
  <1> QED
    BY <1>2, <1>3, Zenon DEF Finished

LEMMA LaterAfter ==
    ASSUME NEW w, NEW v, Obeys(w, v), ~Ended(w.t, v.t), v.t.st \in {"active", "cleanup"},
           NEW proof, NEW o \in Returns([v EXCEPT !.t.st = "cleanup"], "err")
    PROVE  Finished(w, o, proof) /\ o.r = "err" /\ ~Ended(w.t, o.w.t)
  <1>1. WInv(v)
    BY Zenon DEF Obeys
  <1>2. IsResult(o) /\ o.r = "err" /\ Obeys(v, o.w) /\ ~Ended(v.t, o.w.t)
    BY <1>1, CleanupLater, Zenon
  <1>3. Obeys(w, o.w) /\ (Ended(w.t, o.w.t) => Ended(w.t, v.t) \/ Ended(v.t, o.w.t))
    BY <1>2, ObeysTrans, Zenon
  <1> QED
    BY <1>2, <1>3, Zenon DEF Finished

LEMMA ReleaseNowDoes ==
    ASSUME NEW w, WInv(w), w.t.st \in {"active", "cleanup"}, NEW proof,
           NEW o \in ReleaseNow(w, proof)
    PROVE  Finished(w, o, proof) /\ o.r \in {"done", "err"}
  <1>1. PICK i \in BridgeRelease(w) :
              \/ o \in Finish(i.w, proof)
              \/ o \in Returns([i.w EXCEPT !.t.st = "cleanup"], "err")
    BY Zenon DEF ReleaseNow, Bind
  <1>2. Bridged(w, i.w)
    BY BridgeReleaseDoes, Zenon DEF WInv
  <1>3. Obeys(w, i.w) /\ ~Ended(w.t, i.w.t) /\ i.w.t.st = w.t.st
    BY <1>2, BridgedObeys, Zenon
  <1> QED
    BY <1>1, <1>3, FinishAfter, LaterAfter, Zenon

LEMMA CleanupOnceDoes ==
    ASSUME NEW w, WInv(w), w.t.st \in {"active", "cleanup"}, NEW proof,
           NEW o \in CleanupOnce(w, proof)
    PROVE  Finished(w, o, proof)
  <1> DEFINE S == IF w.b.orphan THEN RetryOrphanRestore(w) ELSE BridgeWatchdog(w)
             R(i) == IF i.w.b.auto THEN BridgeRelease(i.w) ELSE {i}
             F(p) == IF p.r = "ok" /\ p.w.t.st = "active" /\ p.w.s.st = "active"
                     THEN Returns(p.w, "ok")
                     ELSE IF /\ p.r \in {"ok", "restored"}
                             /\ p.w.s.st = "empty" /\ ~p.w.b.orphan /\ ~p.w.b.auto
                             /\ ~p.w.b.held
                     THEN Finish(p.w, proof)
                     ELSE Returns([p.w EXCEPT !.t.st = "cleanup"], "err")
             G(i) == UNION {F(p) : p \in R(i)}
  <1>1. o \in UNION {G(i) : i \in S}
    BY Zenon DEF CleanupOnce, Bind
  <1> HIDE DEF F
  <1>2. PICK i \in S : o \in G(i)
    <2> HIDE DEF G, S
    <2> QED
      BY <1>1, Zenon
  <1>3. PICK p \in R(i) : o \in F(p)
    <2> HIDE DEF R
    <2> QED
      BY <1>2, Zenon
  <1> HIDE DEF G
  <1>4. \/ o \in Returns(p.w, "ok")
        \/ o \in Finish(p.w, proof)
        \/ o \in Returns([p.w EXCEPT !.t.st = "cleanup"], "err")
    <2> HIDE DEF R, S
    <2> QED
      BY <1>3, Zenon DEF F
  <1>5. Bridged(w, i.w)
    BY RetryOrphanRestoreDoes, BridgeWatchdogDoes, Zenon DEF WInv
  <1>6. Obeys(w, i.w) /\ ~Ended(w.t, i.w.t) /\ i.w.t.st = w.t.st
    BY <1>5, BridgedObeys, Zenon
  <1> HIDE DEF S
  <1>7. p = i \/ Bridged(i.w, p.w)
    BY <1>6, BridgeReleaseDoes, Zenon DEF Obeys, WInv
  <1> HIDE DEF R
  <1>8. Obeys(w, p.w) /\ ~Ended(w.t, p.w.t) /\ p.w.t.st = w.t.st
    <2>1. CASE p = i
      BY <1>6, <2>1, Zenon
    <2>2. CASE Bridged(i.w, p.w)
      <3>1. Obeys(i.w, p.w) /\ ~Ended(i.w.t, p.w.t) /\ p.w.t.st = i.w.t.st
        BY <1>6, <2>2, BridgedObeys, Zenon DEF Obeys
      <3> QED
        BY <1>6, <3>1, ObeysTrans, Zenon
    <2> QED
      BY <1>7, <2>1, <2>2, Zenon
  <1>9. CASE o \in Returns(p.w, "ok")
    BY <1>8, <1>9, ReturnsIs, SMTT(20) DEF Finished
  <1> QED
    BY <1>4, <1>8, <1>9, FinishAfter, LaterAfter, Zenon

LEMMA RestoreQuarantinedDoes ==
    ASSUME NEW w, WInv(w), w.t.st # "idle", NEW o \in RestoreQuarantined(w)
    PROVE  IsResult(o) /\ Obeys(w, o.w) /\ ~Ended(w.t, o.w.t) /\ o.r = "err"
  <1> DEFINE S == IF w.t.st = "active" THEN ReleaseNow(w, "none") ELSE Returns(w, "ok")
             R(i) == IF i.w.t.st = "cleanup" THEN CleanupOnce(i.w, "none") ELSE {i}
  <1>1. PICK i \in S : \E q \in R(i) : o = Set(q, "r", "err")
    BY DEF RestoreQuarantined, Bind, Set
  <1>2. PICK q \in R(i) : o = Set(q, "r", "err")
    BY <1>1, Zenon
  <1>3. IsResult(i) /\ Obeys(w, i.w) /\ ~Ended(w.t, i.w.t)
    <2>1. CASE w.t.st = "active"
      BY <2>1, ReleaseNowDoes, Zenon DEF Finished
    <2>2. CASE w.t.st # "active"
      BY <2>2, ReturnsIs, ObeysItself, SMTT(20)
    <2> QED
      BY <2>1, <2>2, Zenon
  <1> HIDE DEF S
  <1>4. IsResult(q) /\ Obeys(w, q.w) /\ ~Ended(w.t, q.w.t)
    <2>1. CASE i.w.t.st = "cleanup"
      <3>1. IsResult(q) /\ Obeys(i.w, q.w) /\ ~Ended(i.w.t, q.w.t)
        BY <1>3, <2>1, CleanupOnceDoes, Zenon DEF Finished, Obeys
      <3> QED
        BY <1>3, <3>1, ObeysTrans, Zenon
    <2>2. CASE i.w.t.st # "cleanup"
      BY <1>3, <2>2, Zenon
    <2> QED
      BY <2>1, <2>2, Zenon
  <1> HIDE DEF R
  <1> QED
    BY <1>2, <1>4, Recast, Zenon

LEMMA FaultyWorld ==
    ASSUME NEW w, WInv(w), w.g.faults > 0
    PROVE  LET u == Set(w, "g", Faulty(w.g)) IN WInv(u) /\ u.t = w.t /\ u.n = w.n
  <1> DEFINE f == Faulty(w.g)
             u == Set(w, "g", f)
  <1>1. EInv(f) /\ (Quiet(w.g) => Quiet(f))
    BY FaultyDoes, SameKeeps, Zenon DEF WInv, BInv, SInv, EInv, Sound
  <1> HIDE DEF f
  <1>2. IsWorld(u) /\ u.g = f /\ u.s = w.s /\ u.b = w.b /\ u.t = w.t /\ u.n = w.n
    BY WithG, Zenon DEF WInv, BInv, SInv
  <1> HIDE DEF u
  <1>3. WInv(u)
    BY <1>1, <1>2, Zenon DEF WInv, BInv, SInv, Link
  <1> QED
    BY <1>2, <1>3, Zenon DEF u, f

LEMMA QueryOwnerDoes ==
    ASSUME NEW w, WInv(w), w.t.st # "idle", NEW o \in QueryOwner(w)
    PROVE  /\ IsResult(o) /\ Obeys(w, o.w) /\ ~Ended(w.t, o.w.t)
           /\ o.w.t.st = w.t.st /\ o.w.t.owner = w.t.owner
           /\ o.r = "gone" => life[w.t.owner] # "alive"
  <1> DEFINE fg == Set(w, "g", Faulty(w.g))
             x == Set(fg.t, "uncertain", TRUE)
             fu == Set(fg, "t", x)
  <1>1. \/ o \in Returns(w, "unknown")
        \/ o \in Returns(w, IF life[w.t.owner] = "alive" THEN "alive" ELSE "gone")
        \/ w.g.faults > 0 /\ o \in Returns(fg, "unknown")
        \/ /\ w.g.faults > 0 /\ w.t.idValid /\ ~w.t.uncertain
           /\ o \in Returns(fu, "unknown")
    BY Zenon DEF QueryOwner, Maybe, Set
  <1>2. CASE o \in Returns(w, "unknown")
    BY <1>2, ReturnsIs, ObeysItself, SMTT(20)
  <1>3. CASE o \in Returns(w, IF life[w.t.owner] = "alive" THEN "alive" ELSE "gone")
    BY <1>3, ReturnsIs, ObeysItself
  <1>4. w.g.faults > 0 => Obeys(w, fg) /\ ~Ended(w.t, fg.t) /\ fg.t = w.t /\ fg.n = w.n
    <2> SUFFICES ASSUME w.g.faults > 0
                 PROVE  Obeys(w, fg) /\ ~Ended(w.t, fg.t) /\ fg.t = w.t /\ fg.n = w.n
      BY Zenon
    <2>1. WInv(fg) /\ fg.t = w.t /\ fg.n = w.n
      BY FaultyWorld, Zenon
    <2> HIDE DEF fg
    <2>2. Tracked(w.t, fg.t)
      BY <2>1, Zenon DEF WInv, TInv, TRef, Tracked, SameSession
    <2> QED
      BY <2>1, <2>2, ObeysSame, Zenon
  <1>5. CASE w.g.faults > 0 /\ o \in Returns(fg, "unknown")
    BY <1>4, <1>5, ReturnsIs, SMTT(20)
  <1>6. CASE /\ w.g.faults > 0 /\ w.t.idValid /\ ~w.t.uncertain
             /\ o \in Returns(fu, "unknown")
    <2>1. /\ SameSession(w.t, x) /\ x.attempted = w.t.attempted
          /\ x.st = w.t.st /\ x.idValid = w.t.idValid /\ x.uncertain
      BY <1>4, <1>6, SetUncertain, Zenon DEF WInv, TInv, TRef
    <2> HIDE DEF x, fg
    <2>2. WInv(fg) /\ fg.t = w.t /\ fg.n = w.n
      BY <1>4, <1>6, Zenon DEF Obeys
    <2>3. IsWorld(fu) /\ fu.g = fg.g /\ fu.s = fg.s /\ fu.b = fg.b /\ fu.t = x /\ fu.n = w.n
      BY <2>2, WithT DEF WInv, BInv, SInv
    <2> HIDE DEF fu
    <2>4. BInv(fu)
      BY <2>2, <2>3, Zenon DEF WInv, BInv, SInv
    <2>5. TInv(fu.t, fu.n)
      BY <1>6, <2>1, <2>2, <2>3, Zenon DEF WInv, TInv, TRef, SameSession
    <2>6. Link(fu)
      BY <2>1, <2>2, <2>3, Zenon DEF WInv, Link
    <2>7. Obeys(w, fu) /\ ~Ended(w.t, fu.t)
      BY <1>6, <2>1, <2>3, <2>4, <2>5, <2>6, Zenon DEF WInv, Obeys, Ended, Lasts, SameSession
    <2> QED
      BY <1>6, <2>1, <2>3, <2>7, ReturnsIs, SMTT(20) DEF SameSession
  <1> QED
    BY <1>1, <1>2, <1>3, <1>5, <1>6, Zenon

-----------------------------------------------------------------------------
LEMMA WatchdogDoes ==
    ASSUME NEW w, WInv(w), NEW o \in TransportWatchdog(w)
    PROVE  /\ IsResult(o) /\ Obeys(w, o.w)
           /\ Ended(w.t, o.w.t) => life[w.t.owner] # "alive"
           /\ w.t.st = "idle" => o.w.t = w.t /\ (Clean(w.g) => Clean(o.w.g))
  <1> DEFINE F(q) == IF q.w.t.uncertain THEN RestoreQuarantined(q.w)
                     ELSE IF q.w.t.st = "awaiting"
                     THEN IF q.r = "gone" THEN Acknowledge(q.w, "gone")
                          ELSE Returns(q.w, "ok")
                     ELSE IF q.r = "gone" /\ q.w.t.st = "active"
                     THEN ReleaseNow(q.w, "gone")
                     ELSE CleanupOnce(q.w, IF q.r = "gone" THEN "gone" ELSE "none")
             E(a) == IF a.r # "ok" \/ RecoveryPending(a.w.g) \/ ~Ready(a.w.g)
                     THEN "err" ELSE "done"
  <1>1. \/ w.t.uncertain /\ o \in RestoreQuarantined(w)
        \/ w.t.st = "idle" /\ o \in Returns(w, "ok")
        \/ /\ w.t.st = "idle" /\ RecoveryPending(w.g)
           /\ \E a \in On(w, BackendRecover(w.g)) : o = Set(a, "r", E(a))
        \/ w.t.st # "idle" /\ o \in UNION {F(q) : q \in QueryOwner(w)}
    BY Zenon DEF TransportWatchdog, Bind, Set
  <1> HIDE DEF E
  <1>2. w.t.uncertain => w.t.st # "idle"
    BY Zenon DEF WInv, TInv, TRef
  <1>3. CASE w.t.uncertain /\ o \in RestoreQuarantined(w)
    BY <1>2, <1>3, RestoreQuarantinedDoes, Zenon
  <1>4. CASE w.t.st = "idle" /\ o \in Returns(w, "ok")
    BY <1>4, ReturnsIs, ObeysItself, Zenon
  <1>5. ASSUME w.t.st = "idle", RecoveryPending(w.g),
               NEW a \in On(w, BackendRecover(w.g)), o = Set(a, "r", E(a))
        PROVE  /\ IsResult(o) /\ Obeys(w, o.w) /\ o.w.t = w.t
               /\ ~Ended(w.t, o.w.t) /\ ~Clean(w.g)
    <2>1. IsWorld(w) /\ EInv(w.g) /\ Quiet(w.g)
      BY <1>5, Zenon DEF WInv, Link, BInv, SInv
    <2>2. PICK b \in BackendRecover(w.g) :
                /\ IsResult(a) /\ IsWorld(a.w) /\ a.w.g = b.g
                /\ a.w.s = w.s /\ a.w.b = w.b /\ a.w.t = w.t /\ a.w.n = w.n
      BY <1>5, <2>1, OnIs
    <2>3. EInv(b.g) /\ Quiet(b.g)
      BY <2>1, RecoverDoes, Zenon
    <2>4. WInv(a.w)
      BY <2>2, <2>3, Zenon DEF WInv, BInv, SInv, Link
    <2>5. IsResult(o) /\ o.w = a.w
      BY <1>5, <2>2, Recast, Zenon
    <2>6. Obeys(w, a.w) /\ ~Ended(w.t, a.w.t)
      BY <1>5, <2>2, <2>4, Zenon DEF Obeys, Ended, WInv, TInv
    <2>7. ~Clean(w.g)
      BY <1>5, Zenon DEF RecoveryPending, HasRestoreObligation, Clean
    <2> QED
      BY <2>2, <2>5, <2>6, <2>7, Zenon
  <1>6. ASSUME w.t.st # "idle", o \in UNION {F(q) : q \in QueryOwner(w)}
        PROVE  /\ IsResult(o) /\ Obeys(w, o.w)
               /\ Ended(w.t, o.w.t) => life[w.t.owner] # "alive"
    <2> HIDE DEF F
    <2>1. PICK q \in QueryOwner(w) : o \in F(q)
      BY <1>6, Zenon
    <2>2. /\ Obeys(w, q.w) /\ ~Ended(w.t, q.w.t) /\ q.w.t.st = w.t.st
          /\ q.r = "gone" => life[w.t.owner] # "alive"
      BY <1>6, QueryOwnerDoes, Zenon
    <2>3. WInv(q.w) /\ q.w.t.st # "idle"
      BY <1>6, <2>2, Zenon DEF Obeys
    <2>4. \/ o \in RestoreQuarantined(q.w)
          \/ q.r = "gone" /\ o \in Acknowledge(q.w, "gone")
          \/ o \in Returns(q.w, "ok")
          \/ q.r = "gone" /\ q.w.t.st = "active" /\ o \in ReleaseNow(q.w, "gone")
          \/ q.w.t.st # "awaiting" /\ q.r = "gone" /\ o \in CleanupOnce(q.w, "gone")
          \/ q.w.t.st # "awaiting" /\ q.r # "gone" /\ o \in CleanupOnce(q.w, "none")
      BY <2>1, Zenon DEF F
    <2>5. q.w.t.st # "awaiting" => q.w.t.st \in {"active", "cleanup"}
      BY <2>3, Zenon DEF WInv, TInv
    <2>6. IsResult(o) /\ Obeys(q.w, o.w) /\ (Ended(q.w.t, o.w.t) => q.r = "gone")
      <3>1. CASE o \in RestoreQuarantined(q.w)
        BY <2>3, <3>1, RestoreQuarantinedDoes, Zenon
      <3>2. CASE q.r = "gone" /\ o \in Acknowledge(q.w, "gone")
        BY <2>3, <3>2, AcknowledgeDoes, Zenon
      <3>3. CASE o \in Returns(q.w, "ok")
        BY <2>3, <3>3, ReturnsIs, ObeysItself
      <3>4. CASE q.r = "gone" /\ q.w.t.st = "active" /\ o \in ReleaseNow(q.w, "gone")
        BY <2>3, <3>4, ReleaseNowDoes, Zenon DEF Finished
      <3>5. CASE q.w.t.st # "awaiting" /\ q.r = "gone" /\ o \in CleanupOnce(q.w, "gone")
        BY <2>3, <2>5, <3>5, CleanupOnceDoes, Zenon DEF Finished
      <3>6. CASE q.w.t.st # "awaiting" /\ q.r # "gone" /\ o \in CleanupOnce(q.w, "none")
        BY <2>3, <2>5, <3>6, CleanupOnceDoes, Zenon DEF Finished
      <3> QED
        BY <2>4, <3>1, <3>2, <3>3, <3>4, <3>5, <3>6, Zenon
    <2>7. Obeys(w, o.w) /\ (Ended(w.t, o.w.t) => Ended(w.t, q.w.t) \/ Ended(q.w.t, o.w.t))
      BY <2>2, <2>6, ObeysTrans, Zenon
    <2> QED
      BY <2>2, <2>6, <2>7, Zenon
  <1> QED
    BY <1>1, <1>2, <1>3, <1>4, <1>5, <1>6, Zenon

(* The transport of a session that is being opened. *)
OpenedBy(t, c, real, captured) ==
    [t EXCEPT !.owner = c, !.gen = t.next, !.next = @ + 1, !.real = real, !.proven = FALSE,
              !.idValid = captured, !.attempted = @ \/ real]

LEMMA OpenedIs ==
    ASSUME NEW t, IsTransport(t), NEW c, NEW real, NEW captured
    PROVE  LET v == OpenedBy(t, c, real, captured)
           IN  /\ IsTransport(v) /\ v.gen = t.next /\ v.next = t.next + 1
               /\ v.real = real /\ v.idValid = captured /\ v.uncertain = t.uncertain
               /\ v.attempted = (t.attempted \/ real)
  <1> DEFINE off == FALSE
             att == t.attempted \/ real
             nxt == t.next + 1
             t1 == Set(t, "owner", c)
             t2 == Set(t1, "gen", t.next)
             t3 == Set(t2, "next", nxt)
             t4 == Set(t3, "real", real)
             t5 == Set(t4, "proven", off)
             t6 == Set(t5, "idValid", captured)
             t7 == Set(t6, "attempted", att)
  <1>1. /\ IsTransport(t1) /\ t1.next = t.next /\ t1.attempted = t.attempted
        /\ t1.uncertain = t.uncertain
    BY TGet DEF TFields
  <1> HIDE DEF t1
  <1>2. /\ IsTransport(t2) /\ t2.next = t.next /\ t2.attempted = t.attempted
        /\ t2.uncertain = t.uncertain /\ t2.gen = t.next
    BY <1>1, TGet, SMTT(20) DEF TFields
  <1> HIDE DEF t2, nxt
  <1>3. /\ IsTransport(t3) /\ t3.next = nxt /\ t3.attempted = t.attempted
        /\ t3.uncertain = t.uncertain /\ t3.gen = t.next
    BY <1>2, TGet, SMTT(20) DEF TFields
  <1> HIDE DEF t3
  <1>4. /\ IsTransport(t4) /\ t4.next = nxt /\ t4.attempted = t.attempted
        /\ t4.uncertain = t.uncertain /\ t4.gen = t.next /\ t4.real = real
    BY <1>3, TGet, SMTT(20) DEF TFields
  <1> HIDE DEF t4, off
  <1>5. /\ IsTransport(t5) /\ t5.next = nxt /\ t5.attempted = t.attempted
        /\ t5.uncertain = t.uncertain /\ t5.gen = t.next /\ t5.real = real
    BY <1>4, TGet, SMTT(20) DEF TFields
  <1> HIDE DEF t5
  <1>6. /\ IsTransport(t6) /\ t6.next = nxt /\ t6.attempted = t.attempted
        /\ t6.uncertain = t.uncertain /\ t6.gen = t.next /\ t6.real = real
        /\ t6.idValid = captured
    BY <1>5, TGet, SMTT(20) DEF TFields
  <1> HIDE DEF t6, att
  <1>7. /\ IsTransport(t7) /\ t7.next = nxt /\ t7.attempted = att
        /\ t7.uncertain = t.uncertain /\ t7.gen = t.next /\ t7.real = real
        /\ t7.idValid = captured
    BY <1>6, TGet, SMTT(20) DEF TFields
  <1>8. t7 = OpenedBy(t, c, real, captured)
    <2>1. t1.next = t.next /\ t2.next = t.next /\ t6.attempted = t.attempted
      BY <1>1, <1>2, <1>6, Zenon
    <2>2. t7 = Set(Set(Set(Set(Set(Set(Set(t, "owner", c), "gen", t.next), "next",
                   t2.next + 1), "real", real), "proven", FALSE), "idValid", captured),
                   "attempted", t6.attempted \/ real)
      BY <2>1, Zenon DEF t1, t2, t3, t4, t5, t6, off, att, nxt
    <2> QED
      BY <2>2, Zenon DEF OpenedBy, Set, t1, t2, t3, t4, t5, t6, off, att, nxt
  <1> HIDE DEF t7
  <1> QED
    BY <1>7, <1>8, Zenon DEF att, nxt

-----------------------------------------------------------------------------
(* What opening works on: the session it names, and nothing taken yet. *)
Opening(w, t, n) == BridgeInit([w EXCEPT !.t = t, !.n = n])
Unopened(w, i) == [i EXCEPT !.b = w.b]

LEMMA OpeningIs ==
    ASSUME NEW w, WInv(w), w.t.st = "idle", NEW t, TRef(t, IF t.idValid THEN 1 ELSE 0),
           t.gen # 0, NEW n, n = IF t.idValid THEN 1 ELSE 0
    PROVE  LET i == Opening(w, t, n)
               e == Unopened(w, i)
           IN  Unused(i) /\ i.t = t /\ Unused(e) /\ e.t = t
  <1> DEFINE wt == Set(w, "t", t)
             wn == Set(wt, "n", n)
             nb == Set(NoBridge(FALSE), "init", TRUE)
             ib == Set(wn, "b", nb)
             i == Set(ib, "s", EmptySession)
             e == Set(i, "b", w.b)
  <1>1. w.b.lease = FALSE /\ w.b \in Bridge /\ ~w.b.held
    BY Zenon DEF WInv, Link, BInv, Bridge
  <1>2. EInv(w.g) /\ Quiet(w.g) /\ IsWorld(w)
    BY Zenon DEF WInv, Link, BInv, SInv
  <1>3. nb \in Bridge /\ ~nb.lease /\ ~nb.held
    BY Zenon DEF NoBridge, Bridge, Set
  <1>4. IsWorld(wt) /\ wt.g = w.g /\ wt.t = t /\ wt.b = w.b
    BY <1>2, WithT
  <1> HIDE DEF wt
  <1>5. IsWorld(wn) /\ wn.g = w.g /\ wn.t = t /\ wn.n = n /\ wn.b = w.b
    BY <1>4, WithN, SMTT(20)
  <1>6. i = Opening(w, t, n)
    <2>1. wn = [w EXCEPT !.t = t, !.n = n]
      BY Zenon DEF wt, Set
    <2> HIDE DEF wn
    <2>2. BridgeInit(wn) = i
      BY <1>1, <1>5, Zenon DEF BridgeInit, Set
    <2> QED
      BY <2>1, <2>2, Zenon DEF Opening
  <1> HIDE DEF wn, nb
  <1>7. IsWorld(ib) /\ ib.g = w.g /\ ib.t = t /\ ib.n = n /\ ib.b = nb
    BY <1>5, WithB, SMTT(20)
  <1> HIDE DEF ib
  <1>8. IsWorld(i) /\ i.g = w.g /\ i.t = t /\ i.n = n /\ i.b = nb /\ i.s = EmptySession
    BY <1>7, WithS, SMTT(20)
  <1> HIDE DEF i
  <1>9. /\ IsWorld(e) /\ e.g = w.g /\ e.t = t /\ e.n = n /\ e.b = w.b /\ e.s = EmptySession
    BY <1>8, WithB, SMTT(20)
  <1> HIDE DEF e
  <1>10. Unused(i)
    BY <1>2, <1>3, <1>8, EmptyIs, Zenon DEF Unused, BInv, SInv
  <1>11. Unused(e)
    BY <1>1, <1>2, <1>9, EmptyIs, Zenon DEF Unused, BInv, SInv
  <1>12. e = Unopened(w, i)
    BY Zenon DEF e, Unopened, Set
  <1> QED
    BY <1>6, <1>8, <1>9, <1>10, <1>11, <1>12, Zenon

(* A session that was acquired, or that the cleanup has to deal with. *)
LEMMA StartedIs ==
    ASSUME NEW w, BInv(w), TRef(w.t, w.n), w.t.gen # 0, NEW x \in {"active", "cleanup"}
    PROVE  /\ WInv(Put(w, "st", x)) /\ Tracked(w.t, Put(w, "st", x).t)
           /\ Put(w, "st", x).t.st = x
  <1> DEFINE u == Put(w, "st", x)
  <1>1. IsWorld(w) /\ IsTransport(w.t)
    BY Zenon DEF BInv, SInv, TRef
  <1>2. /\ IsWorld(u) /\ u.g = w.g /\ u.s = w.s /\ u.b = w.b /\ u.n = w.n
        /\ Tracked(w.t, u.t) /\ u.t.st = x
    BY <1>1, PutIs, SMTT(20)
  <1> HIDE DEF u
  <1>3. BInv(u)
    BY <1>2, Zenon DEF BInv, SInv
  <1>4. TInv(u.t, u.n)
    BY <1>2, Zenon DEF TInv, TRef, Tracked, SameSession
  <1>5. Link(u)
    BY <1>2, Zenon DEF Link
  <1> QED
    BY <1>2, <1>3, <1>4, <1>5, Zenon DEF WInv, u

LEMMA TokenIs ==
    ASSUME NEW w, WInv(w), NEW x
    PROVE  /\ WInv(Put(w, "token", x)) /\ Tracked(w.t, Put(w, "token", x).t)
           /\ Put(w, "token", x).t.st = w.t.st
  <1> DEFINE u == Put(w, "token", x)
  <1>1. IsWorld(w) /\ IsTransport(w.t)
    BY Zenon DEF WInv, BInv, SInv, TInv, TRef
  <1>2. /\ IsWorld(u) /\ u.g = w.g /\ u.s = w.s /\ u.b = w.b /\ u.n = w.n
        /\ Tracked(w.t, u.t) /\ u.t.st = w.t.st
    BY <1>1, PutIs, Zenon
  <1> HIDE DEF u
  <1>3. BInv(u)
    BY <1>2, Zenon DEF WInv, BInv, SInv
  <1>4. TInv(u.t, u.n)
    BY <1>2, Zenon DEF WInv, TInv, TRef, Tracked, SameSession
  <1>5. Link(u)
    BY <1>2, Zenon DEF WInv, Link
  <1> QED
    BY <1>2, <1>3, <1>4, <1>5, Zenon DEF WInv, u

(* The session that was opened, or none. *)
Opened(t, v) == (v.real = t.real /\ v.attempted = t.attempted)
                \/ (~v.real /\ v.attempted = t.attempted)

LEMMA OpenAcquireDoes ==
    ASSUME NEW w, WInv(w), w.t.st = "idle", NEW c, NEW real \in BOOLEAN,
           NEW captured \in BOOLEAN, captured => real, ~(real /\ w.t.attempted),
           NEW o \in OpenAcquire(w, c, real, captured)
    PROVE  IsResult(o) /\ Obeys(w, o.w) /\ o.r \in {"ok", "err"}
  <1> DEFINE t == OpenedBy(w.t, c, real, captured)
             n == IF captured THEN w.n + 1 ELSE w.n
             i == Opening(w, t, n)
             e == Unopened(w, i)
             F(a) == IF a.r = "ok"
                     THEN Returns([a.w EXCEPT !.t.st = "active", !.t.token = TRUE], "ok")
                     ELSE IF a.w.b.orphan \/ a.w.b.held
                     THEN Returns([a.w EXCEPT !.t.st = "cleanup"], "err")
                     ELSE {[z EXCEPT !.r = "err"] : z \in ReleaseAndClear(a.w)}
  <1>1. \/ o \in {[z EXCEPT !.r = "err"] : z \in ReleaseAndClear(e)}
        \/ o \in UNION {F(a) : a \in BridgeAcquire(i)}
    BY Zenon DEF OpenAcquire, Bind, OpenedBy, Opening, Unopened
  <1>2. /\ IsTransport(t) /\ t.gen = w.t.next /\ t.next = w.t.next + 1
        /\ t.real = real /\ t.idValid = captured /\ t.uncertain = w.t.uncertain
        /\ t.attempted = (w.t.attempted \/ real)
    BY OpenedIs, Zenon DEF WInv, TInv, TRef
  <1> HIDE DEF t
  <1>3. w.t.next \in Nat \ {0} /\ ~w.t.idValid /\ ~w.t.uncertain /\ w.n = 0 /\ ~w.t.real
    BY Zenon DEF WInv, TInv, TRef
  <1>4. n = IF t.idValid THEN 1 ELSE 0
    BY <1>2, <1>3
  <1> HIDE DEF n
  <1>5. TRef(t, IF t.idValid THEN 1 ELSE 0) /\ t.gen # 0
    BY <1>2, <1>3, SMTT(20) DEF TRef
  <1>6. Unused(i) /\ i.t = t /\ Unused(e) /\ e.t = t
    BY <1>4, <1>5, OpeningIs, SMTT(20)
  <1> HIDE DEF i, e
  <1>7. ASSUME NEW v, WInv(v), Opened(t, v.t)
        PROVE  Obeys(w, v)
    BY <1>2, <1>3, <1>7, Zenon DEF Obeys, Opened
  <1>8. ASSUME NEW u, Unused(u), u.t = t, o \in {[z EXCEPT !.r = "err"] : z \in ReleaseAndClear(u)}
        PROVE  IsResult(o) /\ Obeys(w, o.w) /\ o.r = "err"
    <2>1. PICK z \in ReleaseAndClear(u) : o = Set(z, "r", "err")
      BY <1>8, Zenon DEF Set
    <2>2. /\ IsResult(z)
          /\ \/ Cleared(u, z.w) /\ z.w.t.attempted = u.t.attempted
             \/ Quarantined(u, z.w)
      BY <1>8, ReleaseAndClearDoes, Zenon
    <2>3. IsResult(o) /\ o.w = z.w /\ o.r = "err"
      BY <2>1, <2>2, Recast, Zenon
    <2>4. WInv(z.w) /\ Opened(t, z.w.t)
      BY <1>8, <2>2, Zenon DEF Cleared, Quarantined, Opened, SameSession
    <2> QED
      BY <1>7, <2>3, <2>4, Zenon
  <1>9. ASSUME NEW a \in BridgeAcquire(i), o \in F(a)
        PROVE  IsResult(o) /\ Obeys(w, o.w) /\ o.r \in {"ok", "err"}
    <2>1. Bridged(i, a.w)
      BY <1>6, BridgeAcquireDoes, Zenon DEF Unused
    <2>2. BInv(a.w) /\ TRef(a.w.t, a.w.n) /\ a.w.t = t
      BY <1>6, <2>1, Zenon DEF Bridged, Unused
    <2>3. CASE a.r = "ok"
      <3> DEFINE on == TRUE
                 st == Put(a.w, "st", "active")
                 u == Put(st, "token", on)
      <3>1. [a.w EXCEPT !.t.st = "active", !.t.token = TRUE] = u
        BY Zenon DEF Put, Set
      <3> HIDE DEF on
      <3>2. WInv(st) /\ Tracked(t, st.t)
        BY <1>5, <2>2, StartedIs, Zenon
      <3> HIDE DEF st
      <3>3. WInv(u) /\ Tracked(st.t, u.t)
        BY <3>2, TokenIs, Zenon
      <3> HIDE DEF u
      <3>4. Opened(t, u.t)
        BY <3>2, <3>3, Zenon DEF Opened, Tracked, SameSession
      <3>5. o \in Returns(u, "ok")
        BY <1>9, <2>3, <3>1, Zenon
      <3> QED
        BY <1>7, <3>3, <3>4, <3>5, ReturnsIs, SMTT(20)
    <2>4. CASE a.r # "ok" /\ (a.w.b.orphan \/ a.w.b.held)
      <3> DEFINE st == Put(a.w, "st", "cleanup")
      <3>1. [a.w EXCEPT !.t.st = "cleanup"] = st
        BY Zenon DEF Put, Set
      <3>2. WInv(st) /\ Tracked(t, st.t)
        BY <1>5, <2>2, StartedIs, Zenon
      <3> HIDE DEF st
      <3>3. Opened(t, st.t)
        BY <3>2, Zenon DEF Opened, Tracked, SameSession
      <3>4. o \in Returns(st, "err")
        BY <1>9, <2>4, <3>1, Zenon
      <3> QED
        BY <1>7, <3>2, <3>3, <3>4, ReturnsIs, SMTT(20)
    <2>5. CASE a.r # "ok" /\ ~(a.w.b.orphan \/ a.w.b.held)
      <3>1. Unused(a.w)
        BY <1>5, <2>2, <2>5, Zenon DEF Unused, BInv
      <3>2. o \in {[z EXCEPT !.r = "err"] : z \in ReleaseAndClear(a.w)}
        BY <1>9, <2>5, Zenon
      <3> QED
        BY <1>8, <2>2, <3>1, <3>2, Zenon
    <2> QED
      BY <2>3, <2>4, <2>5, Zenon
  <1> HIDE DEF F
  <1> QED
    BY <1>1, <1>6, <1>8, <1>9, Zenon

-----------------------------------------------------------------------------
(* The calls of the transport. *)

LEMMA OpenIdleDoes ==
    ASSUME NEW w, WInv(w), w.t.st = "idle", NEW c, NEW real \in BOOLEAN,
           NEW o \in OpenIdle(w, c, real)
    PROVE  IsResult(o) /\ Obeys(w, o.w)
  <1> DEFINE fg == Set(w, "g", Faulty(w.g))
  <1>1. \/ o \in Returns(w, "err")
        \/ ~(real /\ w.t.attempted) /\ o \in OpenAcquire(w, c, real, FALSE)
        \/ ~(real /\ w.t.attempted) /\ real /\ o \in OpenAcquire(w, c, real, TRUE)
        \/ w.g.faults > 0 /\ o \in Returns(fg, "err")
    BY Zenon DEF OpenIdle, Maybe, Set
  <1>2. CASE o \in Returns(w, "err")
    BY <1>2, ReturnsIs, ObeysItself
  <1>3. CASE ~(real /\ w.t.attempted) /\ o \in OpenAcquire(w, c, real, FALSE)
    BY <1>3, OpenAcquireDoes, Zenon
  <1>4. CASE ~(real /\ w.t.attempted) /\ real /\ o \in OpenAcquire(w, c, real, TRUE)
    BY <1>4, OpenAcquireDoes, Zenon
  <1>5. CASE w.g.faults > 0 /\ o \in Returns(fg, "err")
    <2>1. WInv(fg) /\ fg.t = w.t /\ fg.n = w.n
      BY <1>5, FaultyWorld, Zenon
    <2> HIDE DEF fg
    <2>2. Obeys(w, fg)
      BY <2>1, Zenon DEF Obeys
    <2> QED
      BY <1>5, <2>2, ReturnsIs, Zenon
  <1> QED
    BY <1>1, <1>2, <1>3, <1>4, <1>5, Zenon

LEMMA TransportOpenDoes ==
    ASSUME NEW w, WInv(w), NEW c, NEW real \in BOOLEAN, NEW o \in TransportOpen(w, c, real)
    PROVE  /\ IsResult(o) /\ Obeys(w, o.w)
           /\ Ended(w.t, o.w.t) => life[w.t.owner] # "alive"
           /\ o.r = "ok" /\ safeRearm /\ w.t.real => life[w.t.owner] # "alive"
  <1> DEFINE F(q) == IF q.r = "err" \/ q.w.t.st # "idle" THEN Returns(q.w, "err")
                     ELSE OpenIdle(q.w, c, real)
  <1>1. \/ o \in Returns(w, "err")
        \/ w.t.st = "idle" /\ o \in OpenIdle(w, c, real)
        \/ o \in UNION {F(q) : q \in TransportWatchdog(w)}
    BY Zenon DEF TransportOpen, Bind
  <1>2. CASE o \in Returns(w, "err")
    BY <1>2, ReturnsIs, ObeysItself
  <1>3. CASE w.t.st = "idle" /\ o \in OpenIdle(w, c, real)
    <2>1. ~w.t.real
      BY <1>3, Zenon DEF WInv, TInv
    <2> QED
      BY <1>3, <2>1, OpenIdleDoes, Zenon DEF Ended
  <1>4. CASE o \in UNION {F(q) : q \in TransportWatchdog(w)}
    <2> HIDE DEF F
    <2>1. PICK q \in TransportWatchdog(w) : o \in F(q)
      BY <1>4, Zenon
    <2>2. Obeys(w, q.w) /\ (Ended(w.t, q.w.t) => life[w.t.owner] # "alive")
      BY WatchdogDoes, Zenon
    <2>3. CASE o \in Returns(q.w, "err")
      BY <2>2, <2>3, ReturnsIs, SMTT(20)
    <2>4. CASE q.w.t.st = "idle" /\ o \in OpenIdle(q.w, c, real)
      <3>1. IsResult(o) /\ Obeys(q.w, o.w)
        BY <2>2, <2>4, OpenIdleDoes, Zenon DEF Obeys
      <3>2. Obeys(w, o.w)
        BY <2>2, <3>1, ObeysTrans, Zenon
      <3>3. safeRearm /\ w.t.real => life[w.t.owner] # "alive"
        BY <2>2, <2>4, Zenon DEF Ended, Lasts
      <3> QED
        BY <3>1, <3>2, <3>3, Zenon DEF Ended
    <2> QED
      BY <2>1, <2>3, <2>4, Zenon DEF F
  <1> QED
    BY <1>1, <1>2, <1>3, <1>4, Zenon

LEMMA TransportReadDoes ==
    ASSUME NEW w, WInv(w), NEW c, NEW k, NEW o \in TransportRead(w, c, k)
    PROVE  IsResult(o) /\ Obeys(w, o.w) /\ ~Ended(w.t, o.w.t)
  <1> DEFINE G(a) == IF a.w.b.auto THEN ReleaseNow(a.w, "none")
                     ELSE IF a.w.s.st = "pending" \/ a.w.b.orphan
                     THEN Returns([a.w EXCEPT !.t.st = "cleanup"], "err")
                     ELSE {a}
             F(a) == IF a.r = "ok" THEN {a} ELSE {[e EXCEPT !.r = "err"] : e \in G(a)}
  <1>1. \/ o \in Returns(w, "err")
        \/ w.t.st = "active" /\ o \in UNION {F(a) : a \in BridgeRead(w)}
    BY Zenon DEF TransportRead, Bind
  <1>2. CASE o \in Returns(w, "err")
    BY <1>2, ReturnsIs, ObeysItself
  <1>3. CASE w.t.st = "active" /\ o \in UNION {F(a) : a \in BridgeRead(w)}
    <2> HIDE DEF F
    <2>1. PICK a \in BridgeRead(w) : o \in F(a)
      BY <1>3, Zenon
    <2>2. IsResult(a) /\ Bridged(w, a.w)
      BY BridgeReadDoes, Zenon DEF WInv
    <2>3. Obeys(w, a.w) /\ ~Ended(w.t, a.w.t) /\ a.w.t.st = "active"
      BY <1>3, <2>2, BridgedObeys, Zenon
    <2>4. CASE o = a
      BY <2>2, <2>3, <2>4, Zenon
    <2>5. ASSUME NEW e \in G(a), o = Set(e, "r", "err")
          PROVE  IsResult(o) /\ Obeys(w, o.w) /\ ~Ended(w.t, o.w.t)
      <3>1. \/ e \in ReleaseNow(a.w, "none")
            \/ e \in Returns([a.w EXCEPT !.t.st = "cleanup"], "err")
            \/ e = a
        BY Zenon
      <3> HIDE DEF G
      <3>2. IsResult(e) /\ Obeys(w, e.w) /\ ~Ended(w.t, e.w.t)
        <4>1. CASE e \in ReleaseNow(a.w, "none")
          <5>1. IsResult(e) /\ Obeys(a.w, e.w) /\ ~Ended(a.w.t, e.w.t)
            BY <2>3, <4>1, ReleaseNowDoes, Zenon DEF Obeys, Finished
          <5> QED
            BY <2>3, <5>1, ObeysTrans, Zenon
        <4>2. CASE e \in Returns([a.w EXCEPT !.t.st = "cleanup"], "err")
          BY <2>3, <4>2, LaterAfter, Zenon DEF Finished
        <4>3. CASE e = a
          BY <2>2, <2>3, <4>3, Zenon
        <4> QED
          BY <3>1, <4>1, <4>2, <4>3, Zenon
      <3> QED
        BY <2>5, <3>2, Recast, Zenon
    <2>6. o = a \/ \E e \in G(a) : o = Set(e, "r", "err")
      <3> HIDE DEF G
      <3> QED
        BY <2>1, Zenon DEF F, Set
    <2> QED
      BY <2>4, <2>5, <2>6, Zenon
  <1> QED
    BY <1>1, <1>2, <1>3, Zenon

LEMMA TransportCloseDoes ==
    ASSUME NEW w, WInv(w), NEW c, NEW k, NEW o \in TransportClose(w, c, k)
    PROVE  /\ IsResult(o) /\ Obeys(w, o.w) /\ (Ended(w.t, o.w.t) => w.t.owner = c)
           /\ o.r \in {"ok", "done"} => o.w.t.st = "idle" /\ Clean(o.w.g)
  <1>1. \/ o \in Returns(w, "err")
        \/ w.t.owner = c /\ w.t.st = "awaiting" /\ o \in Acknowledge(w, "close")
        \/ /\ w.t.owner = c /\ w.t.st # "idle" /\ w.t.st # "awaiting"
           /\ o \in ReleaseNow(w, "close")
    BY Zenon DEF TransportClose, HandleValid
  <1>2. CASE o \in Returns(w, "err")
    BY <1>2, ReturnsIs, ObeysItself, SMTT(20)
  <1>3. CASE w.t.owner = c /\ w.t.st = "awaiting" /\ o \in Acknowledge(w, "close")
    BY <1>3, AcknowledgeDoes, Zenon
  <1>4. CASE /\ w.t.owner = c /\ w.t.st # "idle" /\ w.t.st # "awaiting"
             /\ o \in ReleaseNow(w, "close")
    <2>1. w.t.st \in {"active", "cleanup"}
      BY <1>4, Zenon DEF WInv, TInv
    <2>2. Finished(w, o, "close") /\ o.r \in {"done", "err"}
      BY <1>4, <2>1, ReleaseNowDoes, Zenon
    <2> QED
      BY <1>4, <2>2, Zenon DEF Finished
  <1> QED
    BY <1>1, <1>2, <1>3, <1>4, Zenon

LEMMA TransportShutdownDoes ==
    ASSUME NEW w, WInv(w), NEW o \in TransportShutdown(w)
    PROVE  /\ IsResult(o) /\ Obeys(w, o.w)
           /\ Ended(w.t, o.w.t) => life[w.t.owner] # "alive"
           /\ o.r = "ok" => o.w.t.st = "idle" /\ ~o.w.t.attempted
  <1> DEFINE A(a) == IF a.r = "done" THEN "ok" ELSE "err"
             F(q) == IF q.w.t.uncertain THEN RestoreQuarantined(q.w)
                     ELSE IF q.r # "gone" THEN Returns(q.w, "err")
                     ELSE {[a EXCEPT !.r = IF @ = "done" THEN "ok" ELSE "err"] :
                              a \in Acknowledge(q.w, "gone")}
             H(i) == IF i.r = "ok" THEN Finish(i.w, "none")
                     ELSE CleanupOnce([i.w EXCEPT !.t.st = "cleanup"], "none")
             S == IF w.t.st # "active" THEN CleanupOnce(w, "none")
                  ELSE UNION {H(i) : i \in BridgeRelease(w)}
             L(f) == Returns(f.w, IF f.r = "done" THEN ShutdownResult(f.w) ELSE "err")
  <1>1. \/ w.t.uncertain /\ o \in RestoreQuarantined(w)
        \/ w.t.st = "idle" /\ o \in Returns(w, ShutdownResult(w))
        \/ w.t.st = "awaiting" /\ o \in UNION {F(q) : q \in QueryOwner(w)}
        \/ w.t.st # "idle" /\ w.t.st # "awaiting" /\ o \in UNION {L(f) : f \in S}
    BY Zenon DEF TransportShutdown, Bind
  <1>2. w.t.uncertain => w.t.st # "idle"
    BY Zenon DEF WInv, TInv, TRef
  <1>3. CASE w.t.uncertain /\ o \in RestoreQuarantined(w)
    BY <1>2, <1>3, RestoreQuarantinedDoes, Zenon
  <1>4. CASE w.t.st = "idle" /\ o \in Returns(w, ShutdownResult(w))
    BY <1>4, ReturnsIs, ObeysItself, SMTT(20) DEF ShutdownResult
  <1>5. CASE w.t.st = "awaiting" /\ o \in UNION {F(q) : q \in QueryOwner(w)}
    <2> HIDE DEF F
    <2>1. PICK q \in QueryOwner(w) : o \in F(q)
      BY <1>5, Zenon
    <2>2. /\ Obeys(w, q.w) /\ ~Ended(w.t, q.w.t) /\ q.w.t.st = "awaiting"
          /\ q.r = "gone" => life[w.t.owner] # "alive"
      BY <1>5, QueryOwnerDoes, Zenon
    <2>3. WInv(q.w)
      BY <2>2, Zenon DEF Obeys
    <2>4. \/ o \in RestoreQuarantined(q.w)
          \/ o \in Returns(q.w, "err")
          \/ q.r = "gone" /\ \E a \in Acknowledge(q.w, "gone") : o = Set(a, "r", A(a))
      BY <2>1, Zenon DEF F, Set
    <2>5. /\ IsResult(o) /\ Obeys(q.w, o.w) /\ (Ended(q.w.t, o.w.t) => q.r = "gone")
          /\ o.r = "ok" => o.w.t.st = "idle" /\ ~o.w.t.attempted
      <3>1. CASE o \in RestoreQuarantined(q.w)
        BY <2>2, <2>3, <3>1, RestoreQuarantinedDoes, Zenon
      <3>2. CASE o \in Returns(q.w, "err")
        BY <2>3, <3>2, ReturnsIs, ObeysItself, SMTT(20)
      <3>3. ASSUME q.r = "gone", NEW a \in Acknowledge(q.w, "gone"), o = Set(a, "r", A(a))
            PROVE  /\ IsResult(o) /\ Obeys(q.w, o.w)
                   /\ o.r = "ok" => o.w.t.st = "idle" /\ ~o.w.t.attempted
        <4>1. /\ IsResult(a) /\ Obeys(q.w, a.w)
              /\ a.r = "done" => a.w.t.st = "idle" /\ ~a.w.t.attempted
          BY <2>3, AcknowledgeDoes, Zenon
        <4>2. A(a) = "ok" => a.r = "done"
          BY Zenon
        <4> HIDE DEF A
        <4>3. IsResult(o) /\ o.w = a.w /\ o.r = A(a)
          BY <3>3, <4>1, Recast, Zenon
        <4> QED
          BY <4>1, <4>2, <4>3, Zenon
      <3> QED
        BY <2>4, <3>1, <3>2, <3>3, Zenon
    <2>6. Obeys(w, o.w) /\ (Ended(w.t, o.w.t) => Ended(w.t, q.w.t) \/ Ended(q.w.t, o.w.t))
      BY <2>2, <2>5, ObeysTrans, Zenon
    <2> QED
      BY <2>2, <2>5, <2>6, Zenon
  <1>6. CASE w.t.st # "idle" /\ w.t.st # "awaiting" /\ o \in UNION {L(f) : f \in S}
    <2> HIDE DEF S, H, L
    <2>1. PICK f \in S : o \in L(f)
      BY <1>6, Zenon
    <2>2. w.t.st \in {"active", "cleanup"}
      BY <1>6, Zenon DEF WInv, TInv
    <2>3. Finished(w, f, "none")
      <3>1. CASE f \in CleanupOnce(w, "none")
        BY <2>2, <3>1, CleanupOnceDoes, Zenon
      <3>2. ASSUME NEW i \in BridgeRelease(w), f \in H(i)
            PROVE  Finished(w, f, "none")
        <4>1. Bridged(w, i.w)
          BY BridgeReleaseDoes, Zenon DEF WInv
        <4>2. Obeys(w, i.w) /\ ~Ended(w.t, i.w.t) /\ i.w.t.st = w.t.st
          BY <2>2, <4>1, BridgedObeys, Zenon
        <4>3. CASE f \in Finish(i.w, "none")
          BY <2>2, <4>2, <4>3, FinishAfter, Zenon
        <4> DEFINE u == Put(i.w, "st", "cleanup")
        <4>4. CASE f \in CleanupOnce(u, "none")
          <5>1. Obeys(i.w, u) /\ ~Ended(i.w.t, u.t) /\ u.t.st = "cleanup"
            BY <2>2, <4>2, StDoes, Zenon DEF Obeys
          <5> HIDE DEF u
          <5>2. Finished(u, f, "none")
            BY <4>4, <5>1, CleanupOnceDoes, Zenon DEF Obeys
          <5>3. Obeys(w, u) /\ ~Ended(w.t, u.t)
            BY <4>2, <5>1, ObeysTrans, Zenon
          <5>4. Obeys(w, f.w) /\ ~Ended(w.t, f.w.t)
            BY <5>2, <5>3, ObeysTrans, Zenon DEF Finished
          <5> QED
            BY <5>2, <5>4, Zenon DEF Finished
        <4>5. f \in Finish(i.w, "none") \/ f \in CleanupOnce(u, "none")
          BY <3>2, Zenon DEF H, Put, Set
        <4> QED
          BY <4>3, <4>4, <4>5, Zenon
      <3> QED
        BY <3>1, <3>2, Zenon DEF S
    <2>4. /\ IsResult(o) /\ o.w = f.w
          /\ o.r = IF f.r = "done" THEN ShutdownResult(f.w) ELSE "err"
      BY <2>1, ReturnsIs DEF L
    <2>5. o.r = "ok" => f.r = "done" /\ ~f.w.t.attempted
      BY <2>4, Zenon DEF ShutdownResult
    <2>6. ~f.w.t.attempted => f.w.t.st # "awaiting"
      BY <2>3, Zenon DEF Finished, Obeys, WInv, TInv, TRef
    <2> QED
      BY <2>3, <2>4, <2>5, <2>6, Zenon DEF Finished
  <1> QED
    BY <1>1, <1>3, <1>4, <1>5, <1>6, Zenon

-----------------------------------------------------------------------------
(* The actions. *)
Rules == RearmAuthorised /\ OneRealEventPerBoot /\ QuarantineSticks

LEMMA WorldIs ==
    /\ IsWorld(World) /\ World.g = g_pmu /\ World.s = session /\ World.b = bridge
    /\ World.t = transport /\ World.n = refs
  BY Zenon DEF World, IsWorld, WFields

LEMMA InstallIs ==
    ASSUME NEW v, IsWorld(v), Install(v)
    PROVE  World' = v
  <1>1. World' = [g |-> v.g, s |-> v.s, b |-> v.b, t |-> v.t, n |-> v.n]
    BY Zenon DEF World, Install
  <1>2. v = [g |-> v.g, s |-> v.s, b |-> v.b, t |-> v.t, n |-> v.n]
    BY Zenon DEF IsWorld, WFields
  <1> QED
    BY <1>1, <1>2, Zenon

(* A step that obeys keeps the invariant and the rules. *)
LEMMA StepIs ==
    ASSUME Inv, safeRearm' = safeRearm, NEW v, World' = v, Obeys(World, v),
           module' # "loaded" => v.t.st = "idle" /\ ~v.t.attempted,
           module' = "unloaded" => Clean(v.g),
           last'.op = "close" /\ last'.ok => v.t.st = "idle" /\ Clean(v.g),
           Ended(transport, v.t) =>
              \/ life[transport.owner] # "alive"
              \/ last'.op \in {"close", "open"} /\ last'.th = transport.owner
    PROVE  Inv' /\ Rules
  <1>1. v.g = g_pmu' /\ v.s = session' /\ v.b = bridge' /\ v.t = transport' /\ v.n = refs'
    BY Zenon DEF World
  <1>2. WInv(v)
    BY Zenon DEF Obeys
  <1>3. Inv'
    <2>1. WInv(World)'
      BY <1>2, Zenon
    <2> QED
      BY <1>1, <2>1, Zenon DEF Inv
  <1>4. World.t = transport /\ World.n = refs
    BY WorldIs, Zenon
  <1>5. transport.uncertain => transport'.uncertain /\ refs' = refs
    BY <1>1, <1>4, Zenon DEF Obeys
  <1>6. ~safeRearm /\ transport.attempted =>
           /\ transport'.attempted
           /\ (transport'.gen = transport.gen /\ transport'.real = transport.real)
              \/ ~transport'.real
    BY <1>1, <1>4, Zenon DEF Obeys
  <1>7. transport'.attempted => module' = "loaded"
    BY <1>1, Zenon
  <1>8. transport'.gen = 0 => g_pmu'.lane = "base" /\ g_pmu'.ctl = "base"
    <2> SUFFICES ASSUME transport'.gen = 0 PROVE g_pmu'.lane = "base" /\ g_pmu'.ctl = "base"
      BY Zenon
    <2>1. v.t.st = "idle"
      BY <1>1, <1>2, Zenon DEF WInv, TInv
    <2>2. Quiet(v.g) /\ EInv(v.g)
      BY <1>2, <2>1, Zenon DEF WInv, Link, BInv, SInv
    <2> QED
      BY <1>1, <2>2, Zenon DEF Quiet, EInv, Sound
  <1>9. transport'.gen # transport.gen /\ safeRearm /\ transport.real => Ended(transport, v.t)
    BY <1>1, Zenon DEF Ended, Lasts
  <1>10. RearmAuthorised
    BY <1>8, <1>9, Zenon DEF RearmAuthorised
  <1>11. OneRealEventPerBoot
    BY <1>6, <1>7, Zenon DEF OneRealEventPerBoot
  <1>12. QuarantineSticks
    BY <1>5, Zenon DEF QuarantineSticks
  <1> QED
    BY <1>3, <1>10, <1>11, <1>12, Zenon DEF Rules

LEMMA ObeysIs ==
    ASSUME NEW w, NEW v, Obeys(w, v)
    PROVE  WInv(v) /\ IsWorld(v)
  BY Zenon DEF Obeys, WInv, BInv, SInv

LEMMA OpenInv ==
    ASSUME Inv, NEW c, NEW real \in BOOLEAN, Open(c, real)
    PROVE  Inv' /\ Rules
  <1>1. PICK o \in TransportOpen(World, c, real) :
              \/ Install(o.w) /\ Return("open", c, o.r = "ok")
              \/ /\ o.r = "ok" /\ o.w.g.faults > 0
                 /\ \E z \in TransportClose([o.w EXCEPT !.g = Faulty(@)], c, o.w.t.gen) :
                        Install(z.w)
                 /\ Return("open", c, FALSE)
    BY Zenon DEF Open
  <1>2. module = "loaded" /\ module' = module /\ safeRearm' = safeRearm
    BY Zenon DEF Open
  <1>3. last'.op = "open"
    BY <1>1 DEF Return
  <1>4. WInv(World) /\ World.t = transport
    BY WorldIs, Zenon DEF Inv
  <1>5. /\ Obeys(World, o.w) /\ (Ended(transport, o.w.t) => life[transport.owner] # "alive")
        /\ o.r = "ok" /\ safeRearm /\ transport.real => life[transport.owner] # "alive"
    BY <1>4, TransportOpenDoes, Zenon
  <1>6. CASE Install(o.w)
    <2>1. World' = o.w
      BY <1>5, <1>6, ObeysIs, InstallIs, Zenon
    <2> QED
      BY <1>2, <1>3, <1>5, <2>1, StepIs, Zenon
  <1>7. ASSUME o.r = "ok", o.w.g.faults > 0,
               NEW z \in TransportClose([o.w EXCEPT !.g = Faulty(@)], c, o.w.t.gen),
               Install(z.w)
        PROVE  Inv' /\ Rules
    <2> DEFINE f == Set(o.w, "g", Faulty(o.w.g))
    <2>1. WInv(f) /\ f.t = o.w.t /\ f.n = o.w.n
      BY <1>5, <1>7, ObeysIs, FaultyWorld, Zenon
    <2>2. z \in TransportClose(f, c, o.w.t.gen)
      BY <1>7, Zenon DEF Set
    <2> HIDE DEF f
    <2>3. Obeys(f, z.w)
      BY <2>1, <2>2, TransportCloseDoes, Zenon
    <2>4. Obeys(World, f)
      BY <1>5, <2>1, Zenon DEF Obeys
    <2>5. Obeys(World, z.w)
      BY <2>3, <2>4, ObeysTrans, Zenon
    <2>6. World' = z.w
      BY <1>7, <2>3, ObeysIs, InstallIs, Zenon
    <2>7. Ended(transport, z.w.t) => life[transport.owner] # "alive"
      BY <1>5, <1>7, Zenon DEF Ended
    <2> QED
      BY <1>2, <1>3, <2>5, <2>6, <2>7, StepIs, Zenon
  <1> QED
    BY <1>1, <1>6, <1>7, Zenon

LEMMA ReadInv ==
    ASSUME Inv, NEW c, NEW k, Read(c, k)
    PROVE  Inv' /\ Rules
  <1>1. PICK o \in TransportRead(World, c, k) :
              Install(o.w) /\ Return("read", c, o.r = "ok")
    BY Zenon DEF Read
  <1>2. module = "loaded" /\ module' = module /\ safeRearm' = safeRearm
    BY Zenon DEF Read
  <1>3. last'.op = "read"
    BY <1>1, Zenon DEF Return
  <1>4. WInv(World) /\ World.t = transport
    BY WorldIs, Zenon DEF Inv
  <1>5. Obeys(World, o.w) /\ ~Ended(transport, o.w.t)
    BY <1>4, TransportReadDoes, Zenon
  <1>6. World' = o.w
    BY <1>1, <1>5, ObeysIs, InstallIs, Zenon
  <1> QED
    BY <1>2, <1>3, <1>5, <1>6, StepIs, Zenon

LEMMA CloseInv ==
    ASSUME Inv, NEW c, NEW k, Close(c, k)
    PROVE  Inv' /\ Rules
  <1>1. PICK o \in TransportClose(World, c, k) :
              Install(o.w) /\ Return("close", c, o.r \in {"ok", "done"})
    BY Zenon DEF Close
  <1>2. module = "loaded" /\ module' = module /\ safeRearm' = safeRearm
    BY Zenon DEF Close
  <1>3. last'.op = "close" /\ last'.th = c /\ (last'.ok => o.r \in {"ok", "done"})
    BY <1>1, Zenon DEF Return
  <1>4. WInv(World) /\ World.t = transport
    BY WorldIs, Zenon DEF Inv
  <1>5. /\ Obeys(World, o.w) /\ (Ended(transport, o.w.t) => transport.owner = c)
        /\ o.r \in {"ok", "done"} => o.w.t.st = "idle" /\ Clean(o.w.g)
    BY <1>4, TransportCloseDoes, Zenon
  <1>6. World' = o.w
    BY <1>1, <1>5, ObeysIs, InstallIs, Zenon
  <1> QED
    BY <1>2, <1>3, <1>5, <1>6, StepIs, Zenon

LEMMA WatchdogPassInv ==
    ASSUME Inv, WatchdogPass
    PROVE  Inv' /\ Rules
  <1>1. PICK o \in TransportWatchdog(World) : Install(o.w)
    BY Zenon DEF WatchdogPass
  <1>2. module' = module /\ safeRearm' = safeRearm
    BY Zenon DEF WatchdogPass
  <1>3. last'.op = "watchdog"
    BY Zenon DEF WatchdogPass, Return
  <1>4. WInv(World) /\ World.t = transport /\ World.g = g_pmu
    BY WorldIs, Zenon DEF Inv
  <1>5. /\ Obeys(World, o.w) /\ (Ended(transport, o.w.t) => life[transport.owner] # "alive")
        /\ transport.st = "idle" => o.w.t = transport /\ (Clean(g_pmu) => Clean(o.w.g))
    BY <1>4, WatchdogDoes, Zenon
  <1>6. World' = o.w
    BY <1>1, <1>5, ObeysIs, InstallIs, Zenon
  <1>7. /\ module' # "loaded" => o.w.t.st = "idle" /\ ~o.w.t.attempted
        /\ module' = "unloaded" => Clean(o.w.g)
    BY <1>2, <1>5, Zenon DEF Inv
  <1> QED
    BY <1>2, <1>3, <1>5, <1>6, <1>7, StepIs, Zenon

LEMMA ModuleStopInv ==
    ASSUME Inv, ModuleStop
    PROVE  Inv' /\ Rules
  <1>1. PICK o \in TransportShutdown(World) :
              Install(o.w) /\ module' = IF o.r = "ok" THEN "stopping" ELSE module
    BY Zenon DEF ModuleStop
  <1>2. module = "loaded" /\ safeRearm' = safeRearm
    BY Zenon DEF ModuleStop
  <1>3. last'.op = "stop"
    BY Zenon DEF ModuleStop, Return
  <1>4. WInv(World) /\ World.t = transport
    BY WorldIs, Zenon DEF Inv
  <1>5. /\ Obeys(World, o.w) /\ (Ended(transport, o.w.t) => life[transport.owner] # "alive")
        /\ o.r = "ok" => o.w.t.st = "idle" /\ ~o.w.t.attempted
    BY <1>4, TransportShutdownDoes, Zenon
  <1>6. World' = o.w
    BY <1>1, <1>5, ObeysIs, InstallIs, Zenon
  <1> QED
    BY <1>1, <1>2, <1>3, <1>5, <1>6, StepIs, Zenon

(* A step of the engine alone. *)
LEMMA EngineStep ==
    ASSUME Inv, NEW g, g_pmu' = g, EInv(g), Quiet(g_pmu) => Quiet(g),
           UNCHANGED <<safeRearm, session, bridge, transport, refs>>,
           module' # "loaded" => transport.st = "idle" /\ ~transport.attempted,
           module' = "unloaded" => Clean(g),
           last'.op = "close" /\ last'.ok => transport.st = "idle" /\ Clean(g)
    PROVE  Inv' /\ Rules
  <1> DEFINE v == Set(World, "g", g)
  <1>1. IsWorld(World) /\ WInv(World) /\ World.t = transport /\ World.g = g_pmu
    BY WorldIs, Zenon DEF Inv
  <1>2. World' = v
    BY SMTT(20) DEF World, Set
  <1>3. /\ IsWorld(v) /\ v.g = g /\ v.s = World.s /\ v.b = World.b /\ v.t = World.t
        /\ v.n = World.n
    BY <1>1, WithG, Zenon
  <1> HIDE DEF v
  <1>4. WInv(v)
    BY <1>1, <1>3, Zenon DEF WInv, BInv, SInv, Link
  <1>5. Obeys(World, v) /\ ~Ended(transport, v.t)
    BY <1>1, <1>3, <1>4, Zenon DEF Obeys, Ended, Lasts, WInv, TInv
  <1> QED
    BY <1>1, <1>2, <1>3, <1>5, StepIs, Zenon

LEMMA ModuleStopBackendInv ==
    ASSUME Inv, ModuleStopBackend
    PROVE  Inv' /\ Rules
  <1>1. PICK o \in BackendStop(g_pmu) :
              g_pmu' = o.g /\ module' = IF o.r = "ok" THEN "unloaded" ELSE module
    BY Zenon DEF ModuleStopBackend
  <1>2. /\ module = "stopping" /\ last'.op = "stop"
        /\ UNCHANGED <<safeRearm, session, bridge, transport, refs>>
    BY Zenon DEF ModuleStopBackend, Return
  <1>3. transport.st = "idle" /\ ~transport.attempted
    BY <1>2, Zenon DEF Inv
  <1>4. EInv(g_pmu) /\ Quiet(g_pmu)
    BY <1>3, WorldIs, Zenon DEF Inv, WInv, Link, BInv, SInv
  <1>5. EInv(o.g) /\ Quiet(o.g) /\ (o.r = "ok" => Clean(o.g))
    BY <1>4, StopDoes, Zenon
  <1> QED
    BY <1>1, <1>2, <1>3, <1>5, EngineStep, Zenon

LEMMA LateWorkerInv ==
    ASSUME Inv, LateWorker
    PROVE  Inv' /\ Rules
  <1>1. PICK c \in Completed(g_pmu) : Engine1(c)
    BY Zenon DEF LateWorker
  <1>2. g_pmu.infl # "none" /\ ~g_pmu.done
    BY Zenon DEF LateWorker
  <1>3. EInv(g_pmu)
    BY WorldIs, Zenon DEF Inv, WInv, BInv, SInv
  <1>4. g_pmu.infl \in Kinds
    BY <1>2, <1>3, Zenon DEF EInv, Sound, Engine
  <1>5. /\ Sound(c) /\ c.started = g_pmu.started /\ c.infl = g_pmu.infl /\ c.done
        /\ Effect(g_pmu, c, c.res, g_pmu.infl)
    BY <1>2, <1>3, <1>4, CompletedDoes, Zenon DEF EInv
  <1>6. EInv(c)
    BY <1>2, <1>3, <1>5, Zenon DEF EInv
  <1>7. Quiet(g_pmu) => Quiet(c)
    BY <1>2, <1>5, Zenon DEF Quiet, Effect
  <1>8. ~Clean(g_pmu)
    BY <1>2, Zenon DEF Clean
  <1>9. /\ g_pmu' = c /\ UNCHANGED <<module, last>>
        /\ UNCHANGED <<safeRearm, session, bridge, transport, refs>>
    BY <1>1, Zenon DEF Engine1
  <1>10. /\ module' # "loaded" => transport.st = "idle" /\ ~transport.attempted
         /\ module' # "unloaded" /\ ~(last'.op = "close" /\ last'.ok)
    BY <1>8, <1>9, Zenon DEF Inv
  <1> QED
    BY <1>6, <1>7, <1>9, <1>10, EngineStep, Zenon

LEMMA SameStep ==
    ASSUME Inv, NEW g, Same(g_pmu, g), Engine1(g)
    PROVE  Inv' /\ Rules
  <1>1. EInv(g_pmu)
    BY WorldIs, Zenon DEF Inv, WInv, BInv, SInv
  <1>2. EInv(g) /\ (Quiet(g_pmu) => Quiet(g)) /\ (Clean(g_pmu) => Clean(g))
    BY <1>1, SameKeeps, Zenon
  <1>3. /\ g_pmu' = g /\ UNCHANGED <<module, last>>
        /\ UNCHANGED <<safeRearm, session, bridge, transport, refs>>
    BY Zenon DEF Engine1
  <1>4. /\ module' # "loaded" => transport.st = "idle" /\ ~transport.attempted
        /\ module' = "unloaded" => Clean(g)
        /\ last'.op = "close" /\ last'.ok => transport.st = "idle" /\ Clean(g)
    BY <1>2, <1>3, Zenon DEF Inv
  <1> QED
    BY <1>2, <1>3, <1>4, EngineStep, Zenon

LEMMA ForeignInv ==
    ASSUME Inv, ForeignArrives \/ ForeignLeaves
    PROVE  Inv' /\ Rules
  <1>1. g_pmu \in Engine
    BY WorldIs, Zenon DEF Inv, WInv, BInv, SInv, EInv, Sound
  <1>2. CASE ForeignArrives
    <2> DEFINE f == Faulty(g_pmu)
               g == Set(f, "foreign", TRUE)
    <2>1. Engine1(g) /\ g_pmu.faults > 0
      BY <1>2, Zenon DEF ForeignArrives, Set
    <2>2. Same(g_pmu, f)
      BY <1>1, <2>1, FaultyDoes, Zenon
    <2> HIDE DEF f
    <2>3. Same(f, g)
      BY <2>2, SetSame, Zenon DEF Same
    <2> HIDE DEF g
    <2>4. Same(g_pmu, g)
      BY <2>2, <2>3, SameTrans, Zenon
    <2> QED
      BY <2>1, <2>4, SameStep, Zenon
  <1>3. CASE ForeignLeaves
    <2> DEFINE g == Set(g_pmu, "foreign", FALSE)
    <2>1. Engine1(g)
      BY <1>3, Zenon DEF ForeignLeaves, Set
    <2>2. Same(g_pmu, g)
      BY <1>1, SetSame, Zenon
    <2> HIDE DEF g
    <2> QED
      BY <2>1, <2>2, SameStep, Zenon
  <1> QED
    BY <1>2, <1>3, Zenon

LEMMA LeaseRunsOutInv ==
    ASSUME Inv, LeaseRunsOut
    PROVE  Inv' /\ Rules
  <1> DEFINE s == [session EXCEPT !.expired = TRUE]
             v == Set(World, "s", s)
  <1>1. /\ IsWorld(World) /\ WInv(World) /\ World.t = transport /\ World.g = g_pmu
        /\ World.s = session
    BY WorldIs, Zenon DEF Inv
  <1>2. s \in Session /\ s.st = session.st
    BY <1>1, Zenon DEF WInv, BInv, SInv, Session
  <1>3. /\ session' = s /\ UNCHANGED <<safeRearm, g_pmu, bridge, transport, refs, module, last>>
    BY Zenon DEF LeaseRunsOut
  <1> HIDE DEF s
  <1>4. World' = v
    BY <1>3 DEF World, Set
  <1>5. /\ IsWorld(v) /\ v.g = World.g /\ v.s = s /\ v.b = World.b /\ v.t = World.t
        /\ v.n = World.n
    BY <1>1, WithS, Zenon
  <1> HIDE DEF v
  <1>6. WInv(v)
    BY <1>1, <1>2, <1>5, Zenon DEF WInv, BInv, SInv, Link
  <1>7. Obeys(World, v) /\ ~Ended(transport, v.t)
    BY <1>1, <1>5, <1>6, Zenon DEF Obeys, Ended, Lasts, WInv, TInv
  <1>8. /\ module' # "loaded" => v.t.st = "idle" /\ ~v.t.attempted
        /\ module' = "unloaded" => Clean(v.g)
        /\ last'.op = "close" /\ last'.ok => v.t.st = "idle" /\ Clean(v.g)
    BY <1>1, <1>3, <1>5, Zenon DEF Inv
  <1> QED
    BY <1>3, <1>4, <1>7, <1>8, StepIs, Zenon

(* A step that touches neither the profiler nor what was reported. *)
LEMMA ElsewhereInv ==
    ASSUME Inv,
           UNCHANGED <<safeRearm, g_pmu, session, bridge, transport, refs, module, last>>
    PROVE  Inv' /\ Rules
  <1>1. WInv(World) /\ World.t = transport /\ World.g = g_pmu
    BY WorldIs, Zenon DEF Inv
  <1>2. World' = World
    BY Zenon DEF World
  <1>3. Obeys(World, World) /\ ~Ended(transport, transport)
    BY <1>1, ObeysItself, Zenon
  <1>4. /\ module' # "loaded" => World.t.st = "idle" /\ ~World.t.attempted
        /\ module' = "unloaded" => Clean(World.g)
        /\ last'.op = "close" /\ last'.ok => World.t.st = "idle" /\ Clean(World.g)
    BY <1>1, Zenon DEF Inv
  <1> QED
    BY <1>1, <1>2, <1>3, <1>4, StepIs, Zenon

-----------------------------------------------------------------------------
LEMMA InitInv ==
    ASSUME PmuConstants, Init
    PROVE  Inv
  <1>1. /\ g_pmu = EngineStarted(MaxFaults) /\ session = EmptySession
        /\ bridge = NoBridge(FALSE) /\ refs = 0 /\ module = "loaded" /\ last.op = "none"
        /\ safeRearm \in BOOLEAN
    BY Zenon DEF Init, PmuConstants
  <1>2. EInv(g_pmu) /\ Quiet(g_pmu)
    <2>1. g_pmu \in Engine
      BY <1>1, Zenon DEF EngineStarted, Engine, PmuConstants
    <2> QED
      BY <1>1, <2>1, Zenon DEF EngineStarted, EInv, Sound, Quiet
  <1>3. /\ transport.st = "idle" /\ transport.gen = 0 /\ transport.next = 1
        /\ ~transport.real /\ ~transport.idValid /\ ~transport.uncertain
    BY Zenon DEF Init
  <1>4. IsTransport(transport)
    BY Zenon DEF Init, IsTransport, TFields
  <1>5. TInv(transport, refs)
    BY <1>1, <1>3, <1>4 DEF TInv, TRef
  <1>6. BInv(World) /\ Link(World)
    BY <1>1, <1>2, WorldIs, NoBridgeIs, EmptyIs, Zenon DEF BInv, SInv, Link
  <1> QED
    BY <1>1, <1>5, <1>6, WorldIs, Zenon DEF Inv, WInv

LEMMA NextInv ==
    ASSUME PmuConstants, Inv, Next
    PROVE  Inv' /\ Rules
  <1>1. ASSUME NEW c \in Threads, NEW real \in RealEvents, Open(c, real)
        PROVE  Inv' /\ Rules
    BY <1>1, OpenInv, Zenon DEF PmuConstants
  <1>2. ASSUME NEW c \in Threads, NEW k \in Generations, Read(c, k)
        PROVE  Inv' /\ Rules
    BY <1>2, ReadInv, Zenon
  <1>3. ASSUME NEW c \in Threads, NEW k \in Generations, Close(c, k)
        PROVE  Inv' /\ Rules
    BY <1>3, CloseInv, Zenon
  <1>4. CASE WatchdogLook
    BY <1>4, ElsewhereInv, Zenon DEF WatchdogLook
  <1>5. CASE WatchdogPass
    BY <1>5, WatchdogPassInv, Zenon
  <1>6. CASE ModuleStop
    BY <1>6, ModuleStopInv, Zenon
  <1>7. CASE ModuleStopBackend
    BY <1>7, ModuleStopBackendInv, Zenon
  <1>8. CASE LateWorker
    BY <1>8, LateWorkerInv, Zenon
  <1>9. CASE LeaseRunsOut
    BY <1>9, LeaseRunsOutInv, Zenon
  <1>10. CASE ForeignArrives \/ ForeignLeaves
    BY <1>10, ForeignInv, Zenon
  <1>11. ASSUME NEW c \in Threads, ThreadEnds(c)
         PROVE  Inv' /\ Rules
    BY <1>11, ElsewhereInv, Zenon DEF ThreadEnds
  <1> QED
    BY <1>1, <1>2, <1>3, <1>4, <1>5, <1>6, <1>7, <1>8, <1>9, <1>10, <1>11, Zenon DEF Next

(* The invariant: every call, every command of the worker in time or late,  *)
(* every fault, whatever the threads and the other PMU users do.            *)
THEOREM Invariance == ASSUME PmuConstants PROVE Spec => []Inv
  <1>1. Init => Inv
    BY InitInv, Zenon
  <1>2. Inv /\ [Next]_vars => Inv'
    <2>1. ASSUME Inv, UNCHANGED vars PROVE Inv'
      BY <2>1, ElsewhereInv, Zenon DEF vars
    <2> QED
      BY <2>1, NextInv, Zenon
  <1> QED
    BY <1>1, <1>2, PTL DEF Spec

(* A register that is not as the snapshot found it is owed: by the engine,  *)
(* and for more than a selector by a session, a bridge with the lease and a *)
(* transport that is active or in cleanup.                                  *)
THEOREM Owed == ASSUME PmuConstants PROVE Spec => []RestorationOwed
  <1>1. Inv => RestorationOwed
    <2> SUFFICES ASSUME Inv PROVE RestorationOwed
      BY Zenon
    <2>1. BInv(World) /\ Link(World) /\ EInv(g_pmu)
      BY WorldIs, Zenon DEF Inv, WInv, BInv, SInv
    <2>2. ~Exact(g_pmu) => HasRestoreObligation(g_pmu)
      BY <2>1, Zenon DEF EInv, Sound, Exact, HasRestoreObligation
    <2>3. g_pmu.need \/ g_pmu.infl \in {"configure", "read", "restore"} => session.st # "empty"
      BY <2>1, WorldIs, Zenon DEF BInv, SInv, Quiet
    <2>4. session.st # "empty" => /\ bridge.held /\ bridge.lease /\ bridge.active
                                  /\ transport.st \in {"active", "cleanup"}
      BY <2>1, WorldIs, Zenon DEF BInv, Link
    <2> QED
      BY <2>2, <2>3, <2>4, Zenon DEF RestorationOwed
  <1> QED
    BY <1>1, Invariance, PTL

(* The provider lease is never lost, and while the reference on the owner   *)
(* is certain exactly the one that is accounted for is held.                *)
THEOREM Held == ASSUME PmuConstants PROVE Spec => []HeldExactly
  <1>1. Inv => HeldExactly
    BY WorldIs, Zenon DEF Inv, WInv, BInv, Link, TInv, TRef, HeldExactly, LeaseNotLeaked,
                   ReferenceExact
  <1> QED
    BY <1>1, Invariance, PTL

(* A Close that returned zero left the registers restored and the transport *)
(* idle; the companion goes away only with the registers restored, without  *)
(* a reference and without a real event attempted since the last re-arm.    *)
THEOREM Ends == ASSUME PmuConstants PROVE Spec => []EndsProven
  <1>1. Inv => EndsProven
    <2> SUFFICES ASSUME Inv PROVE EndsProven
      BY Zenon
    <2>1. EInv(g_pmu) /\ TInv(transport, refs)
      BY WorldIs, Zenon DEF Inv, WInv, BInv, SInv
    <2>2. Clean(g_pmu) => Exact(g_pmu)
      BY <2>1, Zenon DEF Clean, EInv, Sound, Exact
    <2>3. transport.st = "idle" => ~transport.uncertain /\ refs = 0
      BY <2>1, Zenon DEF TInv, TRef
    <2> QED
      BY <2>2, <2>3, Zenon DEF Inv, EndsProven, CloseProves, UnloadClean
  <1> QED
    BY <1>1, Invariance, PTL

(* No step ends the session of a real event without its owner, attempts a   *)
(* second real event where one is allowed, or touches a reference in        *)
(* quarantine.                                                              *)
THEOREM RealEvent == ASSUME PmuConstants PROVE Spec => RealEventRules
  <1>1. Inv /\ [Next]_vars => [RearmAuthorised /\ OneRealEventPerBoot /\ QuarantineSticks]_vars
    BY NextInv, Zenon DEF Rules
  <1> QED
    BY <1>1, Invariance, PTL DEF Spec, RealEventRules

=============================================================================
