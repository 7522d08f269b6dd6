------------------------------- MODULE TimeSync -------------------------------
(***************************************************************************)
(* iotlab_time.c: extension of a narrow (32-bit) tick against the wide    *)
(* (64-bit) clock, the two-entry config history written by                *)
(* iotlab_time_set_time, and the fixed-point tick -> {sec, usec}          *)
(* conversion of iotlab_time_extend_relative.  Widths and constants are   *)
(* scaled down: the narrow tick is NarrowBits wide, wide ticks live modulo *)
(* WideMod, KFreq plays 1000 * frequency (Mul plays the factor 1000) and  *)
(* USec plays 1000000.                                                    *)
(***************************************************************************)
EXTENDS Integers, Sequences, FiniteSets

CONSTANTS NarrowBits,  \* width of timer_tick (32 in the code)
          WideMod,     \* 2^64 in the code
          Mul,         \* the factor 1000 of get_seconds/get_microseconds
          KFreq,       \* SOFT_TIMER_KFREQUENCY_FIX
          USec,        \* 1000000
          Refs,        \* unix_time_ref values the gateway may install
          MaxNow,      \* wide clock bound
          MaxAge,      \* age (ticks) of a narrow timestamp when extended
          MaxSets,     \* set_time calls
          MaxSamples   \* samples converted and remembered

NarrowMod == 2 ^ NarrowBits
Half == NarrowMod \div 2     \* the bit 0x80000000

(* get_extended_time: the high part of the wide clock with the narrow     *)
(* tick as low part, one narrow period earlier when the clock's top low   *)
(* bit is below the tick's; unsigned arithmetic modulo 2^64.              *)
TopBit(x) == (x % NarrowMod) \div Half

(* Plausible bug: the comparison of the top bits is not strict.           *)
ExtendLe(t, now64) ==
    LET abs == (now64 \div NarrowMod) * NarrowMod + t
    IN  IF TopBit(now64) <= TopBit(t) THEN (abs - NarrowMod) % WideMod ELSE abs

Extend(t, now64) ==
    LET abs == (now64 \div NarrowMod) * NarrowMod + t
    IN  IF TopBit(now64) < TopBit(t) THEN (abs - NarrowMod) % WideMod ELSE abs

(* The initial time_config entries {0, {0, 0}, KFREQUENCY_FIX, 0}.        *)
Config0 == [time0 |-> 0, ref |-> [sec |-> 0, usec |-> 0], lastSet |-> 0]

(* Plausible bug: a tick equal to last_set_time uses the new config.      *)
SelectConfigStrict(cfg, tick64) ==
    IF tick64 < cfg[1].lastSet THEN cfg[2] ELSE cfg[1]

(* select_config: time_config[1] for ticks up to and including the last   *)
(* set time, time_config[0] after it.                                     *)
SelectConfig(cfg, tick64) ==
    IF tick64 <= cfg[1].lastSet THEN cfg[2] ELSE cfg[1]

(* ticks_conversion: get_seconds and get_microseconds of a tick count,   *)
(* both scaling by 1000 before dividing by kfrequency.                    *)
TicksConversion(ticks) ==
    LET d == ticks * Mul
    IN  [sec |-> d \div KFreq, usec |-> ((d % KFreq) * USec) \div KFreq]

(* _iotlab_time_convert: ticks_conversion of tick64 - time0 (unsigned),   *)
(* add unix_time_ref, carry when tv_usec > 1000000.                       *)
Convert(c, tick64) ==
    LET t    == TicksConversion((tick64 - c.time0) % WideMod)
        sec  == t.sec + c.ref.sec
        usec == t.usec + c.ref.usec
    IN  IF usec > USec THEN [sec |-> sec + 1, usec |-> usec - USec]
                       ELSE [sec |-> sec, usec |-> usec]

(* iotlab_time_convert: select_config, then convert.                       *)
TimeConvert(cfg, tick64) == Convert(SelectConfig(cfg, tick64), tick64)

VARIABLES now,      \* soft_timer_time_64()
          config,   \* time_config: <<latest, previous>>
          sets,     \* set_time calls so far
          samples   \* [tick, conv, fresh, updates]: a converted tick, its
                    \* result, whether it followed the latest set_time, and
                    \* the set_time calls since

vars == <<now, config, sets, samples>>

Init == /\ now = 0
        /\ config = <<Config0, Config0>>
        /\ sets = 0
        /\ samples = {}

(* The wide clock advances.                                               *)
Advance == /\ now < MaxNow
           /\ now' = now + 1
           /\ UNCHANGED <<config, sets, samples>>

(* iotlab_time_set_time(t0, ref): t0 is the narrow timestamp of the frame *)
(* that carried the command, age ticks ago.  The memmove pushes the       *)
(* latest config into the history; the new one is keyed on now64.        *)
SetTime(age, ref) ==
    /\ sets < MaxSets /\ age <= now
    /\ sets' = sets + 1
    /\ config' = << [time0 |-> Extend((now - age) % NarrowMod, now),
                     ref |-> ref, lastSet |-> now],
                    config[1] >>
    /\ samples' = {[s EXCEPT !.updates = @ + 1] : s \in samples}
    /\ UNCHANGED now

(* iotlab_time_extend_relative of a narrow timestamp taken age ticks ago  *)
(* (a pps or consumption interrupt); the result is remembered.            *)
ExtendRelative(age) ==
    LET tick64 == Extend((now - age) % NarrowMod, now) IN
    /\ Cardinality(samples) < MaxSamples /\ age <= now
    /\ samples' = samples \cup
                  {[tick |-> tick64, conv |-> TimeConvert(config, tick64),
                    fresh |-> tick64 > config[1].lastSet, updates |-> 0]}
    /\ UNCHANGED <<now, config, sets>>

Next == \/ Advance
        \/ \E a \in 0..MaxAge, r \in Refs : SetTime(a, r)
        \/ \E a \in 0..MaxAge : ExtendRelative(a)

Spec == Init /\ [][Next]_vars
-----------------------------------------------------------------------------
TypeOK ==
    /\ now \in 0..MaxNow /\ sets \in 0..MaxSets
    /\ config \in Seq([time0 : 0..(WideMod - 1), ref : Refs \cup {Config0.ref},
                      lastSet : 0..MaxNow])
    /\ Len(config) = 2
    /\ \A s \in samples : s.tick \in 0..MaxNow /\ s.fresh \in BOOLEAN
                         /\ s.updates \in 0..MaxSets

(* get_extended_time recovers the wide value of every narrow timestamp    *)
(* taken at most half a narrow period before the clock reading, across    *)
(* the narrow wrap (the cases of test_time_extend).                       *)
ExtendRecoversPast ==
    \A a \in 0..Half : a <= now => Extend((now - a) % NarrowMod, now) = now - a

(* A tick converted after the latest set_time converts to the same         *)
(* {sec, usec} after one more set_time (spec: the stability invariant;    *)
(* test_convert_stability): select_config keys on last_set_time, ties     *)
(* going to the older config.                                             *)
StableAcrossOneUpdate ==
    \A s \in samples : s.fresh /\ s.updates <= 1 =>
        TimeConvert(config, s.tick) = s.conv
=============================================================================
