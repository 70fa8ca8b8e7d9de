----------------------------- MODULE ArmedTriggers -----------------------------
(***************************************************************************)
(* The intrabar half of the research engine for one instrument: the armed  *)
(* list (execution/armed_state.py), the price groups built from it         *)
(* (execution/grouping.py), the tick trigger engine                        *)
(* (execution/tick_engine.py) and the orchestrator's tick and candle       *)
(* handlers (main_research.py).                                            *)
(*                                                                         *)
(* The handlers run one at a time, on the feed's thread.  Of what the      *)
(* templates make of a candle only the arms are kept: one for a variant of *)
(* the trend template, one on each side for the breakout templates.        *)
(* Indicator snapshots and metadata only decorate the trades, which are    *)
(* handed to the recorder (TradeRecorder).                                 *)
(* Trigger types that have no price level are never produced by it.        *)
(***************************************************************************)
EXTENDS Integers, Sequences, FiniteSets, SequencesExt, Lists

CONSTANTS
    Variants,
    Timeframe,      \* of each variant
    Straddlers,     \* variants of the templates that arm both sides (orb, bb)
    Expiry,         \* STRATEGY_EXPIRY_CANDLES of its strategy, in candles
    Levels,         \* trigger levels, and the prices ticks may have
    MaxArmed,       \* max_armed_per_instrument
    MaxCandles      \* bound on the candles of a timeframe in a day

TriggersParameters ==
    /\ IsFiniteSet(Variants) /\ Straddlers \subseteq Variants
    /\ Expiry \in [Variants -> Nat \ {0}]
    /\ Levels \subseteq Nat
    /\ MaxArmed \in Nat \ {0} /\ MaxCandles \in Nat

Directions == {"LONG", "SHORT"}
Timeframes == {Timeframe[v] : v \in Variants}

(* What the evaluator arms: a variant, where it triggers, and the candle   *)
(* of its timeframe it was armed at.                                       *)
Arm(v, d, l, n) == [variant |-> v, dir |-> d, level |-> l, at |-> n]

VARIABLES
    armed,          \* _armed: a sequence of arms, in the order they were added
    triggered,      \* _triggered_today
    groups,         \* _groups: the members of each [dir, level]
    counter         \* _candle_counters of the instrument

vars == <<armed, triggered, groups, counter>>

GroupKeys == [dir : Directions, level : Levels]
NoGroups == [g \in GroupKeys |-> {}]

Init ==
    /\ armed = <<>> /\ triggered = {} /\ groups = NoGroups
    /\ counter = [tf \in Timeframes |-> 0]

Arms == ToSet(armed)

KeyOf(a) == [dir |-> a.dir, level |-> a.level]

(* rebuild: a group per level and direction in use, every arm in its own.  *)
Rebuild(list) == [g \in GroupKeys |-> {a \in ToSet(list) : KeyOf(a) = g}]

(* check_triggers *)
Crossed(price) ==
    {g \in GroupKeys : /\ groups[g] # {}
                       /\ IF g.dir = "LONG" THEN price >= g.level ELSE price <= g.level}

(* disarm_triggered: all arms of the variants that fired.                  *)
DisarmTriggered(list, fired) == Among(list, {a \in ToSet(list) : a.variant \notin fired})

(* A tick: every crossed group fires all its members and is removed, and   *)
(* the variants that fired leave the armed list for the day.               *)
Tick(price) ==
    LET crossed == Crossed(price)
        fired == {a.variant : a \in UNION {groups[g] : g \in crossed}}
    IN  /\ crossed # {}
        /\ groups' = [g \in GroupKeys |-> IF g \in crossed THEN {} ELSE groups[g]]
        /\ armed' = DisarmTriggered(armed, fired)
        /\ triggered' = triggered \cup fired
        /\ UNCHANGED counter

(* cleanup_expired, for the timeframe whose candle closed.                 *)
CleanupExpired(list, tf, count) ==
    Among(list, {a \in ToSet(list) : Timeframe[a.variant] = tf => count - a.at < Expiry[a.variant]})

(* arm: up to the limit, and not what triggered today.                     *)
AddArms(list, new) == FillUp(list, new, {a \in ToSet(new) : a.variant \notin triggered}, MaxArmed)

(* Planted fault: the groups are rebuilt before the new arms are added.    *)
Candle_RebuildsFirst(tf, new) ==
    LET count == counter[tf] + 1
        kept == CleanupExpired(armed, tf, count)
    IN  /\ count <= MaxCandles
        /\ counter' = [counter EXCEPT ![tf] = count]
        /\ armed' = AddArms(kept, [i \in DOMAIN new |-> [new[i] EXCEPT !.at = count]])
        /\ groups' = Rebuild(kept)
        /\ UNCHANGED triggered

(* A candle of a timeframe: count it, drop what expired, add the new arms, *)
(* rebuild the groups.  (Without enough history the handler returns before *)
(* any of this.)                                                           *)
Candle(tf, new) ==
    LET count == counter[tf] + 1
        list == AddArms(CleanupExpired(armed, tf, count),
                        [i \in DOMAIN new |-> [new[i] EXCEPT !.at = count]])
    IN  /\ count <= MaxCandles
        /\ counter' = [counter EXCEPT ![tf] = count]
        /\ armed' = list
        /\ groups' = Rebuild(list)
        /\ UNCHANGED triggered

(* The first tick of another day resets everything.                        *)
NewDay ==
    /\ armed' = <<>> /\ triggered' = {} /\ groups' = NoGroups
    /\ counter' = [tf \in Timeframes |-> 0]

(* What a template may ask for: a breakout on both sides at once, or one   *)
(* entry.                                                                  *)
Setups(v) ==
    IF v \in Straddlers
    THEN {{Arm(v, "LONG", p[2], 0), Arm(v, "SHORT", p[1], 0)} :
             p \in {q \in Levels \X Levels : q[1] <= q[2]}}
    ELSE {{Arm(v, g.dir, g.level, 0)} : g \in GroupKeys}

(* The arms of some variants of the timeframe.  The evaluator goes through *)
(* the variants with the long candidate first.                             *)
Produced(tf) ==
    LET mine == {v \in Variants : Timeframe[v] = tf}
        asked(S) == {f \in [S -> UNION {Setups(v) : v \in S}] : \A v \in S : f[v] \in Setups(v)}
        side(f, d) == SetToSeq({a \in UNION {f[v] : v \in DOMAIN f} : a.dir = d})
    IN  {side(f, "LONG") \o side(f, "SHORT") : f \in UNION {asked(S) : S \in SUBSET mine}}

Next ==
    \/ \E price \in Levels : Tick(price)
    \/ \E tf \in Timeframes : \E new \in Produced(tf) : Candle(tf, new)
    \/ NewDay

Spec == Init /\ [][Next]_vars

-----------------------------------------------------------------------------
TypeOK ==
    /\ \A i \in DOMAIN armed :
          /\ armed[i].variant \in Variants /\ KeyOf(armed[i]) \in GroupKeys
          /\ armed[i].at \in 1..counter[Timeframe[armed[i].variant]]
    /\ Len(armed) <= MaxArmed
    /\ triggered \subseteq Variants
    /\ \A g \in GroupKeys : \A a \in groups[g] : KeyOf(a) = g

(* What is armed is watched: every arm is in the group of its level, so a  *)
(* tick that reaches the level finds it, and its variant has not triggered *)
(* today, although the evaluator goes on producing arms for it.  The types *)
(* are part of it.                                                         *)
ArmedIsWatched ==
    /\ TypeOK
    /\ \A i \in DOMAIN armed :
          armed[i] \in groups[KeyOf(armed[i])] /\ armed[i].variant \notin triggered

(* armed_state.py:10 "No variant remains ARMED indefinitely": an arm is    *)
(* never as old, in candles of its own timeframe, as its window is long,   *)
(* whatever the candles of the other timeframes do.                        *)
WindowsRespected ==
    \A i \in DOMAIN armed :
        counter[Timeframe[armed[i].variant]] - armed[i].at < Expiry[armed[i].variant]

(* armed_state.py:9 "Triggered variants are immediately removed from watch *)
(* list": no price group has a member whose variant triggered today.       *)
TriggeredLeavesWatch ==
    \A g \in GroupKeys : \A a \in groups[g] : a.variant \notin triggered

=============================================================================
