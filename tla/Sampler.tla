------------------------------- MODULE Sampler -------------------------------
(***************************************************************************)
(* How the transmitter reads its sticks (drv_adc.c): the radio thread      *)
(* starts a chain of conversions and waits on a semaphore; the interrupt   *)
(* of each conversion stores its result and starts the next, and the last  *)
(* one releases the semaphore.  Meanwhile the main thread may measure the  *)
(* chip's temperature with the same converter (HAL_GetInterTempValue, a    *)
(* callback of the RF library).                                            *)
(*                                                                         *)
(* The main thread has the lowest priority and runs only while the radio   *)
(* thread waits or sleeps; the interrupt comes before the next step of     *)
(* either.  The converter is external: a conversion ends some time after   *)
(* its start, and one whose channel or configuration was changed under way *)
(* gives a wrong reading.  A reading is the number of the channel it is    *)
(* of, or Wrong.                                                           *)
(***************************************************************************)
EXTENDS Integers

CONSTANT ADC_CHANNEL_MAX  \* 6

ASSUME ChannelsAssumption == ADC_CHANNEL_MAX \in Nat \ {0, 1}

VARIABLES
    pc,            \* where the radio thread stands
    conver_index,
    wait_sem,      \* the semaphore's value
    converting,    \* the conversion under way: its reading, or Idle
    flag,          \* the interrupt flag, end of conversion
    data,          \* R16_ADC_DATA
    channel,       \* R8_ADC_CHANNEL
    config,        \* R8_ADC_CFG: for the sticks or for the temperature
    mpc,           \* where HAL_GetInterTempValue stands
    saved,         \* what it has saved of channel and config
    age,           \* history: passes since each channel's reading was stored, up to 2
    calm,          \* history: passes in a row without a measurement, up to 2
    early          \* history: the temperature was measured before the first pass

threadVars    == <<pc, conver_index>>
converterVars == <<converting, flag, data, channel, config>>
halVars       == <<mpc, saved>>
history       == <<age, calm, early>>
vars          == <<threadVars, wait_sem, converterVars, halVars, history>>

-----------------------------------------------------------------------------
\* The last channel is CH_INTE_VTEMP: the chain reads it, with the sensor off
\* and for nobody; adc_read is called for the others.
Channels    == 0..(ADC_CHANNEL_MAX - 1)
Temperature == ADC_CHANNEL_MAX - 1
Sticks      == Channels \ {Temperature}
Wrong       == ADC_CHANNEL_MAX
Idle        == -1

UpTo2(n) == IF n < 2 THEN n ELSE 2

Init ==
    /\ pc = "sleep" /\ conver_index = 0 /\ wait_sem = 0
    /\ converting = Idle /\ flag = FALSE /\ data = Wrong
    /\ channel = 0 /\ config = "stick"
    /\ mpc = "idle" /\ saved = <<0, "stick">>
    /\ age = [c \in Channels |-> 2] /\ calm = 2 /\ early = FALSE

-----------------------------------------------------------------------------
(***************************************************************************)
(* The converter.                                                          *)
(***************************************************************************)
\* What a conversion started now reads.
Reading(ch, cfg) ==
    IF (cfg = "temperature") = (ch = Temperature) THEN ch ELSE Wrong

\* A register is written: a conversion under way is spoilt.
Spoilt == IF converting = Idle THEN Idle ELSE Wrong

ADC_ChannelCfg(ch) ==
    /\ channel' = ch
    /\ converting' = Spoilt
    /\ UNCHANGED <<flag, data, config>>

\* R8_ADC_CONVERT = 0; the conversion may or may not go on.
ADC_ClearITFlag ==
    /\ flag' = FALSE
    /\ converting' \in {converting, Idle}
    /\ UNCHANGED <<data, channel, config>>

ADC_StartUp ==
    /\ converting' = Reading(channel, config)
    /\ UNCHANGED <<flag, data, channel, config>>

ConversionEnds ==
    /\ converting # Idle /\ ~flag
    /\ flag' = TRUE /\ data' = converting /\ converting' = Idle
    /\ UNCHANGED <<channel, config, threadVars, wait_sem, halVars, history>>

-----------------------------------------------------------------------------
(***************************************************************************)
(* The radio thread: adc_multi_convert, and the use of what it read.       *)
(***************************************************************************)
Running == ~flag /\ UNCHANGED halVars

\* The delay of 20 ms has outlasted the last chain.
Begin ==
    /\ Running /\ pc = "sleep"
    /\ converting # Idle => conver_index = ADC_CHANNEL_MAX
    /\ conver_index' = 0
    /\ age' = [c \in Channels |-> UpTo2(age[c] + 1)]
    /\ calm' = IF mpc = "idle" THEN UpTo2(calm + 1) ELSE 0
    /\ pc' = "channel"
    /\ UNCHANGED <<wait_sem, converterVars, early>>

\* conver_index is not volatile: the compiler may use the 0 just stored or
\* read it again.  An index of ADC_CHANNEL_MAX reads past the map.
SetChannel ==
    /\ Running /\ pc = "channel"
    /\ \/ ADC_ChannelCfg(0)
       \/ conver_index \in Channels /\ ADC_ChannelCfg(conver_index)
       \/ conver_index \notin Channels /\ \E ch \in Channels : ADC_ChannelCfg(ch)
    /\ pc' = "clear"
    /\ UNCHANGED <<conver_index, wait_sem, history>>

ClearFlag ==
    /\ Running /\ pc = "clear"
    /\ ADC_ClearITFlag
    /\ pc' = "start"
    /\ UNCHANGED <<conver_index, wait_sem, history>>

StartChain ==
    /\ Running /\ pc = "start"
    /\ ADC_StartUp
    /\ pc' = "take"
    /\ UNCHANGED <<conver_index, wait_sem, history>>

\* rt_sem_take: one disabling of interrupts.
rt_sem_take ==
    /\ Running /\ pc = "take"
    /\ \/ wait_sem > 0 /\ wait_sem' = wait_sem - 1 /\ pc' = "use"
       \/ wait_sem = 0 /\ wait_sem' = 0 /\ pc' = "wait"
    /\ UNCHANGED <<conver_index, converterVars, history>>

\* adc_read and the rest of the pass, then rt_thread_delay.
UseReadings ==
    /\ Running /\ pc = "use"
    /\ pc' = "sleep"
    /\ UNCHANGED <<conver_index, wait_sem, converterVars, history>>

Thread == Begin \/ SetChannel \/ ClearFlag \/ StartChain \/ rt_sem_take \/ UseReadings

-----------------------------------------------------------------------------
(***************************************************************************)
(* ADC_IRQHandler.                                                         *)
(***************************************************************************)
\* rt_sem_release: a waiting thread goes on, else the value counts it.
rt_sem_release ==
    \/ pc = "wait" /\ pc' = "use" /\ UNCHANGED wait_sem
    \/ pc # "wait" /\ wait_sem' = wait_sem + 1 /\ UNCHANGED pc

\* Mutants: the semaphore is released one conversion early, or never.
MoreButOne(index) == index + 1 < ADC_CHANNEL_MAX - 1
MoreByOne(index)  == index < ADC_CHANNEL_MAX

\* Another channel is left after this one.
More(index) == index + 1 < ADC_CHANNEL_MAX

\* Store the result; start the next channel, or wake the radio thread.
Store ==
    /\ conver_index < ADC_CHANNEL_MAX
    /\ age' = [age EXCEPT ![conver_index] = IF data = conver_index THEN 0 ELSE 2]
    /\ conver_index' = conver_index + 1
    /\ IF More(conver_index)
       THEN /\ channel' = conver_index + 1
            /\ converting' = Reading(conver_index + 1, config)
            /\ UNCHANGED <<pc, wait_sem>>
       ELSE rt_sem_release /\ UNCHANGED <<channel, converting>>

\* The chain is over: only the flag is cleared.
Ignore ==
    /\ conver_index >= ADC_CHANNEL_MAX
    /\ UNCHANGED <<threadVars, wait_sem, channel, converting, age>>

ADC_IRQHandler ==
    /\ flag
    /\ flag' = FALSE
    /\ Store \/ Ignore
    /\ UNCHANGED <<data, config, halVars, calm, early>>

-----------------------------------------------------------------------------
(***************************************************************************)
(* The main thread: HAL_GetInterTempValue.  It does not mask the converter *)
(* interrupt.                                                              *)
(***************************************************************************)
Lowest ==
    /\ ~flag /\ pc \in {"sleep", "wait"}
    /\ UNCHANGED <<threadVars, wait_sem, age>>

Save ==
    /\ Lowest /\ mpc = "idle"
    /\ saved' = <<channel, config>>
    /\ calm' = 0
    /\ early' = (early \/ (pc = "sleep" /\ conver_index = 0))
    /\ mpc' = "channel"
    /\ UNCHANGED converterVars

\* ADC_InterTSSampInit: the channel ...
SetTemperature ==
    /\ Lowest /\ mpc = "channel"
    /\ ADC_ChannelCfg(Temperature)
    /\ mpc' = "config"
    /\ UNCHANGED <<saved, calm, early>>

\* ... and the configuration.
Configure ==
    /\ Lowest /\ mpc = "config"
    /\ config' = "temperature"
    /\ converting' = Spoilt
    /\ mpc' = "start"
    /\ UNCHANGED <<flag, data, channel, saved, calm, early>>

StartTemperature ==
    /\ Lowest /\ mpc = "start"
    /\ ADC_StartUp
    /\ mpc' = "poll"
    /\ UNCHANGED <<saved, calm, early>>

\* The bit RB_ADC_START is set while a conversion, whosever it is, goes on.
Poll ==
    /\ Lowest /\ mpc = "poll" /\ converting = Idle
    /\ mpc' = "restoreChannel"
    /\ UNCHANGED <<converterVars, saved, calm, early>>

RestoreChannel ==
    /\ Lowest /\ mpc = "restoreChannel"
    /\ ADC_ChannelCfg(saved[1])
    /\ mpc' = "restoreConfig"
    /\ UNCHANGED <<saved, calm, early>>

\* Mutant: the configuration is left as it is.
RestoreNothing ==
    /\ Lowest /\ mpc = "restoreConfig"
    /\ mpc' = "idle"
    /\ UNCHANGED <<converterVars, saved, calm, early>>

RestoreConfig ==
    /\ Lowest /\ mpc = "restoreConfig"
    /\ config' = saved[2]
    /\ converting' = Spoilt
    /\ mpc' = "idle"
    /\ UNCHANGED <<flag, data, channel, saved, calm, early>>

HAL_GetInterTempValue ==
    Save \/ SetTemperature \/ Configure \/ StartTemperature \/ Poll
    \/ RestoreChannel \/ RestoreConfig

Next == Thread \/ ADC_IRQHandler \/ ConversionEnds \/ HAL_GetInterTempValue

Spec == Init /\ [][Next]_vars

\* Conversions end, interrupts are taken, and the thread has the highest
\* priority but waits and sleeps.
FairSpec == Spec /\ WF_vars(ConversionEnds) /\ WF_vars(ADC_IRQHandler) /\ WF_vars(Thread)

-----------------------------------------------------------------------------
TypeOK ==
    /\ pc \in {"sleep", "channel", "clear", "start", "take", "wait", "use"}
    /\ conver_index \in 0..ADC_CHANNEL_MAX /\ wait_sem \in 0..2
    /\ converting \in Idle..Wrong /\ flag \in BOOLEAN /\ data \in 0..Wrong
    /\ channel \in 0..Temperature /\ config \in {"stick", "temperature"}
    /\ mpc \in {"idle", "channel", "config", "start", "poll", "restoreChannel",
                "restoreConfig"}
    /\ saved \in (0..Temperature) \X {"stick"}
    /\ age \in [Channels -> 0..2] /\ calm \in 0..2 /\ early \in BOOLEAN

\* A pass in which the temperature was not being measured steers with each
\* stick's own reading of this pass, whatever measurements came before.  A
\* measurement in the second before the first pass is the exception: its
\* interrupt starts a chain that nobody waits for, whose token then ends the
\* wait of every pass too early; the readings are those of the last pass.
OwnReadings ==
    pc = "use" => /\ calm >= 1 /\ ~early => \A c \in Sticks : age[c] = 0
                  /\ calm = 2 => \A c \in Sticks : age[c] <= 1

\* The radio thread never needs the 50 ms limit whose expiry it ignores: a
\* chain that a measurement breaks into still comes to its end.
ChainEnds == pc = "take" ~> pc = "use"
=============================================================================
