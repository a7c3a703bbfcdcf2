------------------------------ MODULE Monitor ------------------------------
(***************************************************************************)
(* The registration of temperatures: the daemon                            *)
(* (sources/avr/temperature_daemon.c) with its timer interrupt, over the   *)
(* databases of TempDb, driven by the buttons and the host commands start, *)
(* stop, set-interval, set-resolution and temperatures-reset, across power *)
(* cycles.  The handlers of the main loop run one after the other; the     *)
(* interrupt comes between any two.                                        *)
(***************************************************************************)
EXTENDS TempDb

CONSTANTS
    Temperatures,           \* what lm_convert returns
    Intervals, Resolutions, \* the settings the host sends
    DEFAULT_RESOLUTION,     \* temperature_timer_resolution of the configuration
    UINT16,                 \* number of values of a uint16_t
    MIN_REGISTRATION_INTERVAL,  \* 50 in the code
    MaxResets,              \* bound on the resets of the databases
    MaxDbsPowered           \* the power is only cut with fewer databases than this

ASSUME MonitorAssumption ==
    /\ Temperatures \subseteq Nat
    /\ Intervals \subseteq Nat \ {0} /\ Resolutions \subseteq Nat \ {0}
    /\ DEFAULT_RESOLUTION \in Nat \ {0}
    /\ UINT16 \in Nat \ {0} /\ MIN_REGISTRATION_INTERVAL \in Nat
    /\ MaxResets \in Nat /\ MaxDbsPowered \in Nat

VARIABLES
    timer_counter, timer_ongoing, timer_elapsed,
    timer_resolution, timer_interval,
    timd,       \* the timer interrupt is enabled
    late,       \* temperatures registered since timer_ongoing was reset
    resets      \* resets of the databases so far

daemonVars == <<timer_counter, timer_ongoing, timer_elapsed, timer_resolution,
                timer_interval, timd, late, resets>>

vars == <<dbVars, daemonVars>>

settings == <<timer_resolution, timer_interval>>

Init ==
    /\ TempDbInit
    /\ timer_counter = 0 /\ timer_ongoing = FALSE /\ timer_elapsed = FALSE
    /\ timer_resolution = DEFAULT_RESOLUTION /\ timer_interval = DEFAULT_INTERVAL
    /\ timd = FALSE /\ late = 0 /\ resets = 0

\* Mutant: the interrupt compares with the interval of the session in progress
ElapsesWithSession(counter) == counter = local_db.interval

ElapsesAt(counter) == counter = timer_interval

\* ISR(TIMER1_COMPA_vect)
Tick ==
    /\ timd /\ ~hung
    /\ LET counter == (timer_counter + 1) % UINT16
       IN  IF ElapsesAt(counter)
             THEN timer_counter' = 0 /\ timer_elapsed' = TRUE
             ELSE timer_counter' = counter /\ UNCHANGED timer_elapsed
    /\ UNCHANGED <<dbVars, timer_ongoing, settings, timd, late, resets>>

-----------------------------------------------------------------------------

\* The product of two uint16_t is a uint16_t
TooFast ==
    (timer_resolution * timer_interval) % UINT16 < MIN_REGISTRATION_INTERVAL

\* temperature_daemon_start; the database changes even if the timer does not
\* start because the settings are too fast
temperature_daemon_start ==
    /\ ~hung /\ ~timer_ongoing
    /\ temperature_db_new(timer_interval)
    /\ IF NoMoreSpace \/ TooFast
         THEN UNCHANGED daemonVars
         ELSE /\ timer_counter' = 0 /\ timer_ongoing' = TRUE /\ timd' = TRUE
              /\ late' = 0
              /\ UNCHANGED <<timer_elapsed, settings, resets>>
    /\ UNCHANGED hung

\* Mutant: the interrupt stays enabled
StopLeavesTimer ==
    /\ timer_ongoing' = FALSE
    /\ UNCHANGED timd

\* temperature_daemon_stop
Stop ==
    /\ timd' = FALSE
    /\ timer_ongoing' = FALSE

temperature_daemon_stop ==
    /\ ~hung /\ timer_ongoing
    /\ Stop
    /\ UNCHANGED <<dbVars, timer_counter, timer_elapsed, settings, late, resets>>

temperatures_reset ==
    /\ ~hung /\ resets < MaxResets
    /\ resets' = resets + 1
    /\ Stop
    /\ temperature_db_reset
    /\ UNCHANGED <<hung, timer_counter, timer_elapsed, settings, late>>

temperature_daemon_set_interval(tint) ==
    /\ ~hung
    /\ timer_interval' = tint
    /\ UNCHANGED <<dbVars, timer_counter, timer_ongoing, timer_elapsed,
                   timer_resolution, timd, late, resets>>

temperature_daemon_set_resolution(tres) ==
    /\ ~hung
    /\ timer_resolution' = tres
    /\ UNCHANGED <<dbVars, timer_counter, timer_ongoing, timer_elapsed,
                   timer_interval, timd, late, resets>>

\* Mutant: the failure of temperature_register is ignored
StopWhenFullNot == UNCHANGED <<timd, timer_ongoing>>

StopWhenFull == Stop

\* temperature_daemon_handler
temperature_daemon_handler ==
    /\ ~hung /\ timer_elapsed
    /\ timer_elapsed' = FALSE
    /\ \/ /\ \E raw_val \in Temperatures : temperature_register(raw_val)
          /\ late' = IF timer_ongoing THEN late ELSE late + 1
          /\ UNCHANGED <<timer_ongoing, timd>>
       \/ /\ NoRoom /\ StopWhenFull
          /\ UNCHANGED <<nvm, local_db, late>>
    /\ UNCHANGED <<hung, timer_counter, settings, resets>>

\* The temperatures of the database at an address
Items(addr) == [i \in 1 .. nvm[addr + USED] |-> nvm[addr + ITEMS + i - 1]]

\* The databases as they are read back: the temperatures of each, in their order
Sessions ==
    LET from[addr \in Addresses] ==
            LET next == NextAddr(Fetch(addr))
            IN  IF next = NULL THEN <<Items(addr)>> ELSE <<Items(addr)>> \o from[next]
    IN  from[0]

(***************************************************************************)
(* The power off button stops the daemon and keeps the memory; a power cut *)
(* loses it, and may come between the writes of temperature_register.      *)
(* All go through temperature_setup, and all that is left to do when       *)
(* temperature_init does not return is to cut the power again.             *)
(***************************************************************************)
PowerOn ==
    /\ Len(Sessions) < MaxDbsPowered
    /\ Stop
    /\ timer_resolution' = DEFAULT_RESOLUTION /\ timer_interval' = DEFAULT_INTERVAL
    /\ temperature_init
    /\ UNCHANGED <<late, resets>>

PowerOff == ~hung /\ UNCHANGED <<nvm, timer_counter, timer_elapsed>> /\ PowerOn

PowerCut ==
    /\ \/ UNCHANGED nvm
       \/ ~hung /\ timer_elapsed /\ \E raw_val \in Temperatures : CutInRegister(raw_val)
    /\ timer_counter' = 0 /\ timer_elapsed' = FALSE
    /\ PowerOn

UserStep ==
    \/ temperature_daemon_start \/ temperature_daemon_stop \/ temperatures_reset
    \/ \E tint \in Intervals : temperature_daemon_set_interval(tint)
    \/ \E tres \in Resolutions : temperature_daemon_set_resolution(tres)
    \/ PowerOff \/ PowerCut

Next == Tick \/ temperature_daemon_handler \/ UserStep

\* The timer runs and the main loop goes round; nothing makes the user act
Fairness == WF_vars(Tick) /\ WF_vars(temperature_daemon_handler)

Spec == Init /\ [][Next]_vars
FairSpec == Spec /\ Fairness

-----------------------------------------------------------------------------

AllIntervals == Intervals \cup {0, DEFAULT_INTERVAL}

TypeOK ==
    /\ nvm \in [Addresses -> Nat]
    /\ local_db \in [used : 0 .. NVM_SIZE, interval : AllIntervals, id : 0 .. DB_IDS - 1,
                     locked : BOOLEAN, nvm_addr : Addresses]
    /\ item_nvm_addr(local_db) <= NVM_SIZE      \* no temperature past the end
    /\ hung \in BOOLEAN
    /\ timer_counter \in 0 .. UINT16 - 1
    /\ timer_ongoing \in BOOLEAN /\ timer_elapsed \in BOOLEAN /\ timd \in BOOLEAN
    /\ timer_resolution \in Resolutions \cup {DEFAULT_RESOLUTION}
    /\ timer_interval \in Intervals \cup {DEFAULT_INTERVAL}
    /\ late \in Nat /\ resets \in 0 .. MaxResets

\* The addresses of the databases, from the first one on
Chain ==
    LET from[addr \in Addresses] ==
            LET next == NextAddr(Fetch(addr))
            IN  IF next = NULL THEN <<addr>> ELSE <<addr>> \o from[next]
    IN  from[0]

\* The databases read back from the EEPROM are the sessions registered, each
\* temperature that the daemon counts in the last one: none overwrites another,
\* is cut short or disappears, power cycles included.
Log == INSTANCE MeasureLog WITH sessions <- Sessions, count <- local_db.used
ImplementsLog == Log!Spec

\* Every session can be downloaded, whole or from any temperature on, as long as no
\* two have the same id: the search for an id, which starts at the database in use or
\* at the first one, ends at the database with that place, and finds none after the
\* last one.  The temperatures counted are those of all sessions, however many.
EveryDbFound ==
    LET all == Sessions
        total[k \in 0 .. Len(all)] == IF k = 0 THEN 0 ELSE total[k - 1] + Len(all[k])
    IN  /\ Len(all) <= DB_IDS =>
              \A k \in DOMAIN all :
                 /\ temperature_count(k - 1) = Len(all[k])
                 /\ \A start_id \in 0 .. Len(all[k]), ntemps \in 0 .. Len(all[k]) :
                       temperature_get_bulk(k - 1, start_id, ntemps) =
                           SubSeq(all[k], start_id + 1, Smaller(start_id + ntemps, Len(all[k])))
        /\ Len(all) < DB_IDS => DbAddr(Len(all)) = NULL
        /\ temperature_count_all = total[Len(all)]

\* Once the daemon is stopped, whoever stops it and whatever was pending, at
\* most one more temperature is registered until it is started again.
AtMostOneLate == late <= 1

\* A session left alone always ends, with the EEPROM full: the timer goes on
\* elapsing, also when the interval was set below its counter during the session.
SessionEnds ==
    \A tint \in Intervals \cup {DEFAULT_INTERVAL} :
        ~<>[](timer_ongoing /\ timer_interval = tint)

\* The interrupt measures by the interval set last, that of the session in progress or
\* not: from the moment it is set, the counter only reaches it to start again, unless
\* it is set at or below the counter.  temperature_daemon.c:84 says that setting it "has
\* no effect on an eventual currently ongoing registration session"; an interrupt that
\* compared with the interval of the session would break this.
IntervalAtOnce ==
    [][timer_counter < timer_interval' => timer_counter' < timer_interval']_vars

\* The board only fails to start when its single session has filled the EEPROM and
\* one more start has locked its database: temperature_init then goes round for ever.
HangsOnlyFull == hung => Len(Sessions) = 1 /\ NoMoreSpace

-----------------------------------------------------------------------------

\* temperature_specific.c:41: temperature_init "just loads the last used DB".
LastDbLoaded == local_db.nvm_addr = Chain[Len(Chain)]
=============================================================================
