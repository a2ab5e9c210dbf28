-------------------------------- MODULE Clk ---------------------------------
(* The common clock framework, common/clk/clk.c: a tree of clocks whose     *)
(* prepare, enable and protect counts climb to the parents, consumers that  *)
(* prepare, enable, claim and re-rate clocks, and the operations that       *)
(* change the tree below running clocks: clk_set_parent(), the adoption of  *)
(* orphans when a clock is registered, and clk_disable_unused().            *)
(*                                                                          *)
(* prepare_lock serialises everything but clk_enable() and clk_disable(),   *)
(* which take enable_lock only.  A call that never drops prepare_lock in    *)
(* the middle and takes no enable_lock is one step.  The others go by       *)
(* critical sections of enable_lock: the thread that holds prepare_lock has *)
(* the rest of its call in op.todo, and between two entries other threads   *)
(* enable and disable clocks.                                               *)
(*                                                                          *)
(* Every clock with possible parents passes its parent's rate on, with      *)
(* CLK_SET_RATE_PARENT; the clocks without are sources that can have any    *)
(* rate.  Only a prepare_lock that its holder may take again lets           *)
(* clk_set_parent() of a prepared clock return, since the owner tests of    *)
(* clk_prepare_lock() are compiled out: this is the one modelled.           *)
EXTENDS Integers, FiniteSetsExt, SequencesExt

CONSTANTS
  Clocks,            \* The struct clk_core objects
  Clks,              \* The consumers, struct clk
  NULL,
  CoreOf,            \* clk->core
  Parents,           \* core->parents, empty for a source
  FlagChoices,       \* The core->flags of the trees considered
  BootOn,            \* What the firmware left running
  Late,              \* The clocks that are not registered at first
  Rates,
  Faults,            \* What may fail
  OrphanExclusive,   \* Whether consumers have claims on clocks without a source
  MaxUse,            \* Bounds on prepares and enables, and on the claims of each
  MaxExclusive       \* consumer

ASSUME ClkAssumption ==
  /\ NULL \notin Clocks
  /\ CoreOf \in [Clks -> Clocks]
  /\ Parents \in [Clocks -> SUBSET Clocks]
  /\ FlagChoices \subseteq
       [Clocks -> SUBSET {"critical", "rate_gate", "parent_gate", "ops_parent", "ignore_unused"}]
  /\ BootOn \subseteq Clocks /\ Late \subseteq Clocks
  /\ Rates \subseteq Nat \ {0}
  /\ Faults \subseteq {"prepare", "enable", "set_parent", "set_rate", "notify", "migrate", "init"}
  /\ OrphanExclusive \in BOOLEAN
  /\ MaxUse \in Nat /\ MaxExclusive \in [Clks -> Nat]

VARIABLES
  flags,             \* core->flags
  registered,        \* The clocks that are on a list
  core,              \* The other fields of the clocks, and the state of their gates
  input,             \* The input each mux selects, in the hardware
  exclusive_count,   \* clk->exclusive_count
  prepares, enables, \* The calls of each consumer that it has not undone
  op,                \* The holder of prepare_lock and the rest of its call
  swept              \* The clocks that clk_disable_unused() went over

vars == <<flags, registered, core, input, exclusive_count, prepares, enables, op, swept>>

Sources == {c \in Clocks : Parents[c] = {}}
Idle == [call |-> "none", clk |-> NULL, left |-> {}, todo |-> <<>>]

(* A clock and the clocks above it, upwards.                               *)
Line(up, c) ==
  LET line[x \in Clocks] == <<x>> \o (IF up[x] = NULL THEN <<>> ELSE line[up[x]])
  IN  IF c = NULL THEN <<>> ELSE line[c]

Above(up, c) == ToSet(Line(up, c))
Below(up, c) == {x \in Clocks : c \in Above(up, x)}

-----------------------------------------------------------------------------
(* The counts.  A count that leaves zero takes one of the parent's, a      *)
(* count that becomes zero gives it back.                                  *)
Climb(up, c, Passes(_)) ==
  LET line == Line(up, c)
  IN  {line[n] : n \in {i \in DOMAIN line : \A j \in 1 .. i - 1 : Passes(line[j])}}

Raised(s, count, c) == Climb(s.parent, c, LAMBDA x : count[x] = 0)

Plus(count, S, d) == [x \in DOMAIN count |-> IF x \in S THEN count[x] + d ELSE count[x]]

clk_core_rate_protect(s, c) ==
  [s EXCEPT !.protect_count = Plus(@, Raised(s, s.protect_count, c), 1)]

clk_core_rate_unprotect(s, c) ==
  LET gone == Climb(s.parent, c, LAMBDA x : s.protect_count[x] = 1)
  IN  [s EXCEPT !.protect_count = Plus(@, {x \in gone : @[x] > 0}, -1)]

(* CLK_SET_RATE_GATE: the provider protects the rate of a prepared clock.  *)
RateGates(S) == {x \in S : "rate_gate" \in flags[x]}

clk_core_prepare(s, c) ==
  LET up == Raised(s, s.prepare_count, c)
      p  == [s EXCEPT !.prepare_count = Plus(@, up, 1),
                      !.prepared = @ \cup {x \in up : s.prepare_count[x] = 0}]
  IN  FoldSet(LAMBDA x, t : clk_core_rate_protect(t, x), p, RateGates(up))

(* A critical clock keeps its last count, with a warning, and what is      *)
(* above it.                                                               *)
Lowered(s, count, c) ==
  {x \in Climb(s.parent, c, LAMBDA x : count[x] = 1 /\ "critical" \notin flags[x]) :
     count[x] > 0 /\ ~(count[x] = 1 /\ "critical" \in flags[x])}

clk_core_unprepare(s, c) ==
  LET down == Lowered(s, s.prepare_count, c)
      p    == FoldSet(LAMBDA x, t : clk_core_rate_unprotect(t, x), s, RateGates(down))
  IN  [p EXCEPT !.prepare_count = Plus(@, down, -1),
                !.prepared = @ \ {x \in down : s.prepare_count[x] = 1}]

clk_core_disable(s, c) ==
  LET down == Lowered(s, s.enable_count, c)
  IN  [s EXCEPT !.enable_count = Plus(@, down, -1),
                !.enabled = @ \ {x \in down : s.enable_count[x] = 1}]

(* Refused, with a warning, when a clock that it has to switch on is not   *)
(* prepared.                                                               *)
clk_core_enable(s, c) ==
  LET up == Raised(s, s.enable_count, c)
  IN  IF \E x \in up : s.prepare_count[x] = 0 THEN s
      ELSE [s EXCEPT !.enable_count = Plus(@, up, 1),
                     !.enabled = @ \cup {x \in up : s.enable_count[x] = 0}]

(* ops->prepare() or ops->enable() of x fails: what is above x is on by    *)
(* then, and is switched off again.                                        *)
PrepareFails(s, x) == clk_core_unprepare(clk_core_prepare(s, s.parent[x]), s.parent[x])
EnableFails(s, x) == clk_core_disable(clk_core_enable(s, s.parent[x]), s.parent[x])

Cold(s, count, c) == {x \in Raised(s, count, c) : count[x] = 0}

-----------------------------------------------------------------------------
(* The consumers' calls.  A consumer enables what it has prepared and      *)
(* unprepares what it has disabled.                                        *)
Locked(k) == op = Idle /\ CoreOf[k] \in registered

clk_prepare(k) ==
  /\ Locked(k) /\ prepares[k] < MaxUse
  /\ LET c == CoreOf[k]
     IN  \/ /\ core' = clk_core_prepare(core, c)
            /\ prepares' = [prepares EXCEPT ![k] = @ + 1]
         \/ /\ "prepare" \in Faults
            /\ \E x \in Cold(core, core.prepare_count, c) : core' = PrepareFails(core, x)
            /\ UNCHANGED prepares
  /\ UNCHANGED <<flags, registered, input, exclusive_count, enables, op, swept>>

clk_unprepare(k) ==
  /\ Locked(k) /\ prepares[k] > 0 /\ (enables[k] > 0 => prepares[k] > 1)
  /\ core' = clk_core_unprepare(core, CoreOf[k])
  /\ prepares' = [prepares EXCEPT ![k] = @ - 1]
  /\ UNCHANGED <<flags, registered, input, exclusive_count, enables, op, swept>>

clk_enable(k) ==
  /\ prepares[k] > 0 /\ enables[k] < MaxUse
  /\ LET c == CoreOf[k]
         e == clk_core_enable(core, c)
     IN  \/ /\ core' = e
            /\ enables' = [enables EXCEPT ![k] = @ + (IF e = core THEN 0 ELSE 1)]
         \/ /\ "enable" \in Faults
            /\ \E x \in Cold(core, core.enable_count, c) : core' = EnableFails(core, x)
            /\ UNCHANGED enables
  /\ UNCHANGED <<flags, registered, input, exclusive_count, prepares, op, swept>>

clk_disable(k) ==
  /\ enables[k] > 0
  /\ core' = clk_core_disable(core, CoreOf[k])
  /\ enables' = [enables EXCEPT ![k] = @ - 1]
  /\ UNCHANGED <<flags, registered, input, exclusive_count, prepares, op, swept>>

-----------------------------------------------------------------------------
(* Rates and the exclusive control of them.                                *)
Claimable(k) ==
  /\ exclusive_count[k] < MaxExclusive[k]
  /\ core.orphan[CoreOf[k]] => OrphanExclusive

clk_rate_exclusive_get(k) ==
  /\ Locked(k) /\ Claimable(k)
  /\ core' = clk_core_rate_protect(core, CoreOf[k])
  /\ exclusive_count' = [exclusive_count EXCEPT ![k] = @ + 1]
  /\ UNCHANGED <<flags, registered, input, prepares, enables, op, swept>>

clk_rate_exclusive_put(k) ==
  /\ Locked(k) /\ exclusive_count[k] > 0
  /\ core' = clk_core_rate_unprotect(core, CoreOf[k])
  /\ exclusive_count' = [exclusive_count EXCEPT ![k] = @ - 1]
  /\ UNCHANGED <<flags, registered, input, prepares, enables, op, swept>>

(* A consumer that still has claims goes; the next clk_get() makes another *)
(* of its name.                                                            *)
__clk_put_All(k) ==
  /\ Locked(k) /\ exclusive_count[k] > 0 /\ prepares[k] = 0
  /\ LET c == CoreOf[k]
     IN  core' = clk_core_rate_unprotect(
                   [core EXCEPT !.protect_count[c] = @ - exclusive_count[k]], c)
  /\ exclusive_count' = [exclusive_count EXCEPT ![k] = 0]
  /\ UNCHANGED <<flags, registered, input, prepares, enables, op, swept>>

__clk_put(k) ==
  /\ Locked(k) /\ exclusive_count[k] > 0 /\ prepares[k] = 0
  /\ LET c == CoreOf[k]
     IN  core' = clk_core_rate_unprotect(
                   [core EXCEPT !.protect_count[c] = @ - (exclusive_count[k] - 1)], c)
  /\ exclusive_count' = [exclusive_count EXCEPT ![k] = 0]
  /\ UNCHANGED <<flags, registered, input, prepares, enables, op, swept>>

(* clk_set_rate(), clk_set_parent() suspend one claim of their caller.     *)
Suspend(s, k) == IF exclusive_count[k] > 0 THEN clk_core_rate_unprotect(s, CoreOf[k]) ELSE s
Resume(s, k) == IF exclusive_count[k] > 0 THEN clk_core_rate_protect(s, CoreOf[k]) ELSE s

(* The rate the clock would get; a source keeps a protected rate, and a    *)
(* clock without a source has none.                                        *)
clk_core_round_rate_nolock_Free(s, c, r) ==
  IF Last(Line(s.parent, c)) \notin Sources THEN 0 ELSE r

clk_core_round_rate_nolock(s, c, r) ==
  LET top == Last(Line(s.parent, c))
  IN  IF top \notin Sources THEN 0
      ELSE IF s.protect_count[top] > 0 THEN s.rate[top] ELSE r

clk_core_rate_nuke_protect(s, c) ==
  IF s.protect_count[c] = 0 THEN s
  ELSE clk_core_rate_unprotect([s EXCEPT !.protect_count[c] = 1], c)

clk_core_rate_restore_protect(s, c, count) ==
  IF count = 0 THEN s
  ELSE [clk_core_rate_protect(s, c) EXCEPT !.protect_count[c] = count]

(* The source changes and everything below it.                             *)
clk_change_rate(s, c, r) ==
  LET top == Last(Line(s.parent, c))
  IN  [s EXCEPT !.rate = [x \in Clocks |-> IF x \in registered \cap Below(s.parent, top)
                                           THEN r ELSE @[x]]]

(* What clk_core_set_rate_nolock() returns and leaves behind.  A failure   *)
(* of ops->set_rate() is seen only in the rate read back.                  *)
clk_core_set_rate_nolock(s, c, r) ==
  LET n     == clk_core_rate_nuke_protect(s, c)
      rate  == clk_core_round_rate_nolock(n, c, r)
      t     == clk_core_rate_restore_protect(n, c, s.protect_count[c])
      Fails(f, ok) == IF f \in Faults THEN {[ok |-> ok, s |-> t]} ELSE {}
  IN  IF rate = t.rate[c] THEN {[ok |-> TRUE, s |-> t]}
      ELSE IF t.protect_count[c] > 0 THEN {[ok |-> FALSE, s |-> t]}
      ELSE {[ok |-> TRUE, s |-> clk_change_rate(t, c, clk_core_round_rate_nolock(t, c, r))]}
           \cup Fails("notify", FALSE) \cup Fails("set_rate", TRUE)

clk_set_rate(k, r) ==
  /\ Locked(k)
  /\ \E res \in clk_core_set_rate_nolock(Suspend(core, k), CoreOf[k], r) :
       core' = Resume(res.s, k)
  /\ UNCHANGED <<flags, registered, input, exclusive_count, prepares, enables, op, swept>>

clk_set_rate_exclusive(k, r) ==
  /\ Locked(k) /\ Claimable(k)
  /\ \E res \in clk_core_set_rate_nolock(core, CoreOf[k], r) :
       IF res.ok
       THEN /\ core' = clk_core_rate_protect(res.s, CoreOf[k])
            /\ exclusive_count' = [exclusive_count EXCEPT ![k] = @ + 1]
       ELSE core' = res.s /\ UNCHANGED exclusive_count
  /\ UNCHANGED <<flags, registered, input, prepares, enables, op, swept>>

-----------------------------------------------------------------------------
(* The calls that hold prepare_lock across critical sections of            *)
(* enable_lock.  op.todo is the rest of the work on one clock, op.left the *)
(* clocks still to come.                                                   *)
Do(what, c) == [do |-> what, c |-> c, p |-> NULL]
If(b, seq) == IF b THEN seq ELSE <<>>

__clk_set_parent_before_NoForce(c, p) ==
     If("ops_parent" \in flags[c],
        <<Do("prepare_enable", core.parent[c]), Do("prepare_enable", p)>>)
  \o If(core.prepare_count[c] > 0, <<Do("prepare_enable", p)>>)
  \o <<[do |-> "reparent", c |-> c, p |-> p]>>

__clk_set_parent_before_OldOnly(c, p) ==
     If("ops_parent" \in flags[c], <<Do("prepare_enable", core.parent[c])>>)
  \o If(core.prepare_count[c] > 0, <<Do("prepare_enable", p), Do("enable", c)>>)
  \o <<[do |-> "reparent", c |-> c, p |-> p]>>

__clk_set_parent_before(c, p) ==
     If("ops_parent" \in flags[c],
        <<Do("prepare_enable", core.parent[c]), Do("prepare_enable", p)>>)
  \o If(core.prepare_count[c] > 0, <<Do("prepare_enable", p), Do("enable", c)>>)
  \o <<[do |-> "reparent", c |-> c, p |-> p]>>

__clk_set_parent_after_Keep(c, p, old) ==
     If(core.prepare_count[c] > 0, <<Do("disable", c)>>)
  \o If("ops_parent" \in flags[c],
        <<Do("disable_unprepare", p), Do("disable_unprepare", old)>>)

__clk_set_parent_after(c, p, old) ==
     If(core.prepare_count[c] > 0, <<Do("disable", c), Do("disable_unprepare", old)>>)
  \o If("ops_parent" \in flags[c],
        <<Do("disable_unprepare", p), Do("disable_unprepare", old)>>)

(* clk_set_parent() refuses, or a notifier does, or the re-parenting       *)
(* begins; PRE_RATE_CHANGE is sent before it.                              *)
clk_set_parent(k, p) ==
  LET c == CoreOf[k]
      s == Suspend(core, k)
      refused == \/ p = core.parent[c]
                 \/ "parent_gate" \in flags[c] /\ core.prepare_count[c] > 0
                 \/ s.protect_count[c] > 0
                 \/ p \notin Parents[c] \cup {NULL}
  IN  /\ Locked(k) /\ p \in registered \cup {NULL}
      /\ p = NULL /\ exclusive_count[k] > 0 => OrphanExclusive
      /\ \/ /\ refused \/ "notify" \in Faults
            /\ core' = Resume(s, k)
            /\ UNCHANGED op
         \/ /\ ~refused
            /\ core' = s
            /\ op' = [call |-> "set_parent", clk |-> k, left |-> {},
                      todo |-> __clk_set_parent_before(c, p)
                               \o <<[do |-> "set_parent", c |-> c, p |-> core.parent[c]]>>]
      /\ UNCHANGED <<flags, registered, input, exclusive_count, prepares, enables, swept>>

(* __clk_core_init(): the clock is linked below its parent or becomes an   *)
(* orphan, a critical clock is switched on, and the orphans are visited.   *)
(* When a critical clock cannot be enabled, clk_core_unprepare() declines  *)
(* to undo its prepare.                                                    *)
Linked(c) ==
  LET p == IF input[c] \in registered THEN input[c] ELSE NULL
  IN  [core EXCEPT
         !.parent[c] = p,
         !.orphan[c] = IF p = NULL THEN c \notin Sources ELSE core.orphan[p],
         !.rate[c]   = IF c \in Sources THEN @ ELSE IF p = NULL THEN 0 ELSE core.rate[p]]

Unlinked(s, c) ==
  [s EXCEPT !.parent[c] = NULL, !.orphan[c] = FALSE,
            !.prepare_count[c] = 0, !.protect_count[c] = 0]

Orphans(s, S) == {x \in S \ Sources : s.parent[x] = NULL}

__clk_core_init(c) ==
  LET s == Linked(c)
      p == clk_core_prepare(s, c)
      critical == "critical" \in flags[c]
  IN  /\ op = Idle /\ c \notin registered
      /\ \/ /\ registered' = registered \cup {c}
            /\ core' = IF critical THEN clk_core_enable(p, c) ELSE s
            /\ op' = [call |-> "init", clk |-> NULL, todo |-> <<>>,
                      left |-> Orphans(s, registered \cup {c})]
         \/ /\ critical
            /\ \/ /\ "prepare" \in Faults
                  /\ \E x \in Cold(s, s.prepare_count, c) :
                       core' = Unlinked(PrepareFails(s, x), c)
               \/ /\ "init" \in Faults
                  /\ \E x \in Cold(p, p.enable_count, c) :
                       core' = Unlinked(clk_core_unprepare(EnableFails(p, x), c), c)
            /\ UNCHANGED <<registered, op>>
      /\ UNCHANGED <<flags, input, exclusive_count, prepares, enables, swept>>

(* The next orphan, if the parent its mux selects is there by now.         *)
clk_core_reparent_orphans_nolock ==
  /\ op.call = "init" /\ op.todo = <<>>
  /\ \E c \in op.left :
       LET p == input[c]
       IN  op' = [op EXCEPT !.left = @ \ {c},
                            !.todo = If(p \in registered,
                                        __clk_set_parent_before(c, p)
                                        \o __clk_set_parent_after(c, p, NULL)
                                        \o <<Do("recalc", c)>>)]
  /\ UNCHANGED <<flags, registered, core, input, exclusive_count, prepares, enables, swept>>

(* clk_disable_unused(), once: the children of a clock before the clock,   *)
(* and when all are done what is not prepared is unprepared.               *)
clk_disable_unused ==
  /\ op = Idle /\ swept = {}
  /\ swept' = registered
  /\ op' = [call |-> "unused", clk |-> NULL, left |-> registered, todo |-> <<>>]
  /\ UNCHANGED <<flags, registered, core, input, exclusive_count, prepares, enables>>

clk_disable_unused_subtree ==
  /\ op.call = "unused" /\ op.todo = <<>>
  /\ \E c \in op.left :
       /\ Below(core.parent, c) \cap op.left = {c}
       /\ LET around(what) == If("ops_parent" \in flags[c], <<Do(what, core.parent[c])>>)
          IN  op' = [op EXCEPT !.left = @ \ {c},
                               !.todo = around("prepare_enable") \o <<Do("unused", c)>>
                                        \o around("disable_unprepare")
                                        \o If(op.left = {c}, <<Do("unprepare_unused", NULL)>>)]
  /\ UNCHANGED <<flags, registered, core, input, exclusive_count, prepares, enables, swept>>

-----------------------------------------------------------------------------
(* The steps of the holder of prepare_lock.                                *)
At(what) == op.todo # <<>> /\ Head(op.todo).do = what
Target == Head(op.todo).c
Step(s) ==
  /\ core' = s
  /\ op' = [op EXCEPT !.todo = Tail(@)]
  /\ UNCHANGED <<flags, registered, input, exclusive_count, prepares, enables, swept>>

(* The parents' preparation changes no count that an enable looks at, so   *)
(* it goes with the enable.  The callers ignore a failure.                 *)
clk_core_prepare_enable ==
  LET x == Target
      p == clk_core_prepare(core, x)
  IN  /\ At("prepare_enable")
      /\ \/ Step(clk_core_enable(p, x))
         \/ /\ "migrate" \in Faults
            /\ \/ \E y \in Cold(core, core.prepare_count, x) : Step(PrepareFails(core, y))
               \/ \E y \in Cold(p, p.enable_count, x) :
                    Step(clk_core_unprepare(EnableFails(p, y), x))

clk_core_enable_lock ==
  /\ At("enable")
  /\ \/ Step(clk_core_enable(core, Target))
     \/ /\ "migrate" \in Faults
        /\ \E y \in Cold(core, core.enable_count, Target) : Step(EnableFails(core, y))

clk_core_disable_lock == At("disable") /\ Step(clk_core_disable(core, Target))

clk_core_disable_unprepare ==
  /\ At("disable_unprepare")
  /\ Step(clk_core_unprepare(clk_core_disable(core, Target), Target))

(* A clock takes the orphan state of its new parent, and so do its         *)
(* children.                                                               *)
Reparented(s, c, p) ==
  [s EXCEPT !.parent[c] = p,
            !.orphan = [x \in Clocks |-> IF x \in Below(s.parent, c)
                                         THEN p = NULL \/ s.orphan[p] ELSE @[x]]]

clk_reparent == At("reparent") /\ Step(Reparented(core, Target, Head(op.todo).p))

(* ops->set_parent(), not called for no parent; when it fails the clock    *)
(* returns to its old parent.  The rates below are computed anew in both   *)
(* cases.                                                                  *)
__clk_set_parent ==
  LET c == Target
      p == core.parent[c]
      old == Head(op.todo).p
      ok == __clk_set_parent_after(c, p, old)
      failed == <<[do |-> "reparent", c |-> c, p |-> old]>> \o __clk_set_parent_after(c, old, p)
  IN  /\ At("set_parent")
      /\ \/ /\ input' = [input EXCEPT ![c] = IF p = NULL THEN @ ELSE p]
            /\ op' = [op EXCEPT !.todo = ok \o <<Do("recalc", c)>>]
         \/ /\ "set_parent" \in Faults /\ p # NULL
            /\ op' = [op EXCEPT !.todo = failed \o <<Do("recalc", c)>>]
            /\ UNCHANGED input
      /\ UNCHANGED <<flags, registered, core, exclusive_count, prepares, enables, swept>>

__clk_recalc_rates_One ==
  /\ At("recalc")
  /\ LET p == core.parent[Target]
     IN  Step([core EXCEPT !.rate[Target] = IF p = NULL THEN 0 ELSE core.rate[p]])

__clk_recalc_rates ==
  /\ At("recalc")
  /\ LET p == core.parent[Target]
     IN  Step([core EXCEPT !.rate = [x \in Clocks |-> IF x \in Below(core.parent, Target)
                                     THEN IF p = NULL THEN 0 ELSE @[p] ELSE @[x]]])

DisableUnused_Prepared ==
  /\ At("unused")
  /\ LET c == Target
     IN  Step(IF core.prepare_count[c] > 0 \/ "ignore_unused" \in flags[c] THEN core
              ELSE [core EXCEPT !.enabled = @ \ {c}])

DisableUnused ==
  /\ At("unused")
  /\ LET c == Target
     IN  Step(IF core.enable_count[c] > 0 \/ "ignore_unused" \in flags[c] THEN core
              ELSE [core EXCEPT !.enabled = @ \ {c}])

clk_unprepare_unused_subtree ==
  /\ At("unprepare_unused")
  /\ Step([core EXCEPT !.prepared = {c \in @ : \/ c \notin swept \/ core.prepare_count[c] > 0
                                               \/ "ignore_unused" \in flags[c]}])

clk_prepare_unlock ==
  /\ op # Idle /\ op.todo = <<>> /\ op.left = {}
  /\ core' = IF op.call = "set_parent" THEN Resume(core, op.clk) ELSE core
  /\ op' = Idle
  /\ UNCHANGED <<flags, registered, input, exclusive_count, prepares, enables, swept>>

-----------------------------------------------------------------------------
Init ==
  /\ flags \in FlagChoices
  /\ registered = Clocks \ Late
  /\ input \in {f \in [Clocks -> Clocks \cup {NULL}] :
                  \A c \in Clocks : IF c \in Sources THEN f[c] = NULL ELSE f[c] \in Parents[c]}
  /\ \E r \in Rates :
       LET up == [c \in Clocks |-> IF {c, input[c]} \subseteq registered THEN input[c] ELSE NULL]
           lost == {c \in registered : Last(Line(up, c)) \notin Sources}
           zero == [c \in Clocks |-> 0]
       IN  core = [parent |-> up, orphan |-> [c \in Clocks |-> c \in lost],
                   rate |-> [c \in Clocks |-> IF c \in lost \cup (Late \ Sources) THEN 0 ELSE r],
                   prepare_count |-> zero, enable_count |-> zero, protect_count |-> zero,
                   prepared |-> BootOn, enabled |-> BootOn]
  /\ exclusive_count = [k \in Clks |-> 0]
  /\ prepares = [k \in Clks |-> 0] /\ enables = [k \in Clks |-> 0]
  /\ op = Idle /\ swept = {}

Next ==
  \/ \E k \in Clks :
       \/ clk_prepare(k) \/ clk_unprepare(k) \/ clk_enable(k) \/ clk_disable(k)
       \/ clk_rate_exclusive_get(k) \/ clk_rate_exclusive_put(k) \/ __clk_put(k)
       \/ \E r \in Rates : clk_set_rate(k, r) \/ clk_set_rate_exclusive(k, r)
       \/ \E p \in Clocks \cup {NULL} : clk_set_parent(k, p)
  \/ \E c \in Clocks : __clk_core_init(c)
  \/ clk_core_reparent_orphans_nolock
  \/ clk_disable_unused \/ clk_disable_unused_subtree
  \/ clk_core_prepare_enable \/ clk_core_enable_lock
  \/ clk_core_disable_lock \/ clk_core_disable_unprepare
  \/ clk_reparent \/ __clk_set_parent \/ __clk_recalc_rates
  \/ DisableUnused \/ clk_unprepare_unused_subtree \/ clk_prepare_unlock

Spec == Init /\ [][Next]_vars

-----------------------------------------------------------------------------
(* Properties.                                                             *)

TypeOK ==
  /\ flags \in FlagChoices
  /\ registered \subseteq Clocks /\ swept \subseteq registered
  /\ core.parent \in [Clocks -> Clocks \cup {NULL}]
  /\ core.orphan \in [Clocks -> BOOLEAN]
  /\ core.rate \in [Clocks -> Rates \cup {0}]
  /\ \A count \in {core.prepare_count, core.enable_count, core.protect_count} :
       count \in [Clocks -> Nat]
  /\ core.prepared \subseteq Clocks /\ core.enabled \subseteq Clocks
  /\ input \in [Clocks -> Clocks \cup {NULL}]
  /\ \A k \in Clks : exclusive_count[k] \in 0 .. MaxExclusive[k]
  /\ prepares \in [Clks -> 0 .. MaxUse] /\ enables \in [Clks -> 0 .. MaxUse]
  /\ op.left \subseteq registered
  /\ \A n \in DOMAIN op.todo : {op.todo[n].c, op.todo[n].p} \subseteq Clocks \cup {NULL}

ByConsumers(calls, c) == MapThenSumSet(LAMBDA k : calls[k], {k \in Clks : CoreOf[k] = c})
ByChildren(count, c) == Cardinality({x \in registered : core.parent[x] = c /\ count[x] > 0})
ByCore(c) == IF c \in registered /\ "critical" \in flags[c] THEN 1 ELSE 0

(* CountsBalanced: whenever prepare_lock is free, prepare_count and        *)
(* enable_count of a clock are the calls its consumers have not undone,    *)
(* one for a critical clock, and one for every child whose own count is    *)
(* not zero: through failed prepares and enables, through re-parentings    *)
(* that succeed, fail or detach the clock, through the adoption of         *)
(* orphans, and whatever clk_enable() and clk_disable() did meanwhile.     *)
CountsBalanced ==
  op = Idle => \A c \in Clocks :
    /\ core.prepare_count[c] = ByConsumers(prepares, c) + ByCore(c)
                               + ByChildren(core.prepare_count, c)
    /\ core.enable_count[c] = ByConsumers(enables, c) + ByCore(c)
                              + ByChildren(core.enable_count, c)

(* ProtectBalanced: whenever prepare_lock is free, protect_count of a      *)
(* clock is the claims of its consumers, its prepares if it has            *)
(* CLK_SET_RATE_GATE, and one for every protected child: the claims that   *)
(* clk_set_rate() and clk_set_parent() suspend, that a rounding removes    *)
(* for a moment and that a consumer leaves behind are all accounted for.   *)
ProtectBalanced ==
  op = Idle => \A c \in Clocks :
    core.protect_count[c] = ByConsumers(exclusive_count, c)
      + (IF "rate_gate" \in flags[c] THEN core.prepare_count[c] ELSE 0)
      + ByChildren(core.protect_count, c)

Enabled == {CoreOf[k] : k \in {j \in Clks : enables[j] > 0}}
             \cup {c \in registered : "critical" \in flags[c]}
Detached(c) ==
  \/ core.parent[c] = NULL
  \/ /\ core.parent[c] # input[c]
     /\ \E n \in DOMAIN op.todo :
          op.todo[n].do \in {"set_parent", "reparent"} /\ op.todo[n].c = c /\ op.todo[n].p = NULL
Feed == [c \in Clocks |-> IF Detached(c) THEN NULL ELSE input[c]]

(* NoInterruption: a clock that a consumer has enabled, and a critical     *)
(* clock, runs without a break: its gate and the gates of all clocks that  *)
(* feed it in the hardware are on and prepared in every state, also        *)
(* between the steps of a parent change, of an adoption and of             *)
(* clk_disable_unused().  What feeds a clock without a parent is not known *)
(* to the framework, until it has moved its mux.                           *)
NoInterruption ==
  \A c \in Enabled : Above(Feed, c) \subseteq core.enabled \cap core.prepared

(* UnusedOff: after clk_disable_unused() no gate of a clock that it went   *)
(* over is on or prepared without a count, unless CLK_IGNORE_UNUSED.       *)
UnusedOff ==
  op = Idle => \A c \in swept :
    \/ "ignore_unused" \in flags[c]
    \/ /\ c \in core.enabled => core.enable_count[c] > 0
       /\ c \in core.prepared => core.prepare_count[c] > 0

(* CacheExact: whenever prepare_lock is free, a registered clock is an     *)
(* orphan exactly when no source feeds it, its rate is then zero, and      *)
(* otherwise its parent is the input its mux selects and its rate the one  *)
(* the source has: also after a parent change that failed.  (Every         *)
(* variable has its type.)                                                 *)
CacheExact ==
  /\ TypeOK
  /\ op = Idle => \A c \in registered :
       LET top == Last(Line(core.parent, c))
       IN  /\ core.orphan[c] = (top \notin Sources)
           /\ core.rate[c] = IF core.orphan[c] THEN 0 ELSE core.rate[top]
           /\ core.parent[c] # NULL => core.parent[c] = input[c]

(* RateLocked: the rate of a clock never changes by another's doing while  *)
(* a consumer has a claim on it or on a clock below it, and not at all     *)
(* while a CLK_SET_RATE_GATE clock at or below it is prepared.             *)
RateLocked ==
  [][\A c \in Clocks : core'.rate[c] # core.rate[c] =>
       /\ \A k \in Clks : exclusive_count[k] > 0 /\ c \in Above(core.parent, CoreOf[k]) =>
            \/ op.call = "set_parent" /\ op.clk = k
            \/ \E r \in Rates : clk_set_rate(k, r)
       /\ \A x \in Below(core.parent, c) :
            "rate_gate" \in flags[x] => core.prepare_count[x] = 0]_vars

(* OpsParentOn: the gate and the mux of a CLK_OPS_PARENT_ENABLE clock are  *)
(* only touched while its parent is on, for a mux both the old and the new *)
(* one.                                                                    *)
OpsParentOn ==
  [][\A c \in Clocks : "ops_parent" \in flags[c] =>
       /\ input'[c] # input[c] =>
            {input'[c]} \cup (IF Detached(c) THEN {} ELSE {input[c]}) \subseteq core.enabled
       /\ (c \in core.enabled) # (c \in core'.enabled) /\ core.parent[c] # NULL =>
            core.parent[c] \in core.enabled \cup core'.enabled]_vars

=============================================================================
