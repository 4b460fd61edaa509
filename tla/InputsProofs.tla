---------------------------- MODULE InputsProofs ----------------------------
(***************************************************************************)
(* Proofs about what the radio thread reads: the sticks (Sampler), for     *)
(* every number of channels, and the left knob (Encoder), turned any way   *)
(* and as far as one likes.                                                *)
(***************************************************************************)
EXTENDS Sampler, Encoder, TLAPS

(***************************************************************************)
(* Sampler: the semaphore's value tells how far the chain of conversions   *)
(* is, and a pass in which the temperature was not measured finds every    *)
(* stick read.                                                             *)
(***************************************************************************)
\* A conversion is under way, or its interrupt is.
UnderWay == converting # Idle \/ flag

\* The chain is over.
Over == conver_index = ADC_CHANNEL_MAX

\* No chain was ever started.
Untouched ==
    /\ pc = "sleep" /\ conver_index = 0 /\ ~UnderWay
    /\ mpc \in (IF early THEN {"channel", "config", "start"} ELSE {"idle"})

\* A measurement keeps the configuration it found, which is the sticks'.
Configured ==
    /\ mpc = "idle" => config = "stick"
    /\ calm >= 1 => mpc = "idle"
    /\ flag => converting = Idle

\* Before rt_sem_take the semaphore counts the chain that is over and at most
\* one token of an early measurement; after it, that chain alone.
Tokens ==
    /\ pc \in {"channel", "clear", "start", "take"} =>
           \/ ~Over /\ wait_sem \in {0, 1}
           \/ Over  /\ wait_sem \in {1, 2}
    /\ pc = "wait" => ~Over /\ wait_sem = 0
    /\ pc \in {"use", "sleep"} => wait_sem = 0 \/ (Over /\ wait_sem = 1)

\* Without an early measurement no token is left over.
NoEarlyToken ==
    ~early =>
        /\ pc \in {"channel", "clear", "start", "take"} =>
               wait_sem = IF Over THEN 1 ELSE 0
        /\ pc \in {"use", "sleep"} => wait_sem = 0 /\ (Over \/ Untouched)

\* A chain that was started goes on until it is over.
GoesOn == pc \in {"take", "wait", "use", "sleep"} => Over \/ UnderWay \/ Untouched

\* Only a measurement of the temperature is under way after the chain, and
\* only then does a pass begin with a conversion under way.
OnlyMeasured ==
    mpc # "poll" =>
        /\ Over => ~UnderWay
        /\ pc \in {"channel", "clear", "start"} => ~UnderWay /\ conver_index = 0

\* The chain of a calm pass converts one stick after the other.
Chain ==
    calm >= 1 =>
        /\ pc \in {"clear", "start"} => channel = 0
        /\ pc \in {"take", "wait", "use", "sleep"} /\ ~Untouched =>
               /\ conver_index \in Sticks =>
                      \/ converting = conver_index
                      \/ flag /\ data = conver_index
               /\ \A c \in Sticks : c < conver_index => age[c] = 0

\* What the chain of the pass before has left.
Before ==
    calm = 2 /\ early => \A c \in Sticks : age[c] <= 1

SamplerInv ==
    /\ TypeOK /\ Configured
    /\ Tokens /\ NoEarlyToken
    /\ GoesOn /\ OnlyMeasured
    /\ Chain /\ Before

-----------------------------------------------------------------------------
\* The numbers of the channels.
LEMMA Numbers ==
    /\ ADC_CHANNEL_MAX \in Nat /\ ADC_CHANNEL_MAX > 1
    /\ Temperature = ADC_CHANNEL_MAX - 1 /\ Wrong = ADC_CHANNEL_MAX /\ Idle = -1
    /\ Channels = 0..Temperature /\ Sticks = 0..(Temperature - 1)
    /\ 0 \in Sticks /\ Sticks \subseteq Channels /\ Temperature \in Channels
BY ChannelsAssumption, SMT DEF Temperature, Wrong, Idle, Channels, Sticks

\* A conversion of a stick gives the stick's reading if it is configured so.
LEMMA Readings ==
    ASSUME NEW ch \in Channels, NEW cfg \in {"stick", "temperature"}
    PROVE  /\ Reading(ch, cfg) \in 0..Wrong
           /\ ch \in Sticks /\ cfg = "stick" => Reading(ch, cfg) = ch
BY Numbers, SMT DEF Reading

\* A pass begins when the chain of the pass before is over, or at power-on.
LEMMA BeginStep == SamplerInv /\ Begin => SamplerInv'
<1> SUFFICES ASSUME SamplerInv, Begin PROVE SamplerInv'
  OBVIOUS
<1> USE Numbers DEF SamplerInv, Begin, Running, converterVars, halVars, UpTo2
<1>1. TypeOK'
  BY SMT DEF TypeOK
<1>2. Configured'
  BY SMT DEF Configured, TypeOK
<1>3. Tokens'
  BY SMT DEF Tokens, Over, TypeOK
<1>4. NoEarlyToken'
  BY SMT DEF NoEarlyToken, Over, Untouched, UnderWay, TypeOK, Configured, Tokens
<1>5. GoesOn'
  BY SMT DEF GoesOn, Over, UnderWay, Untouched, TypeOK
<1>6. OnlyMeasured'
  BY SMT DEF OnlyMeasured, Over, UnderWay, TypeOK, Configured
<1>7. Chain'
  BY SMT DEF Chain, Over, Untouched, UnderWay, TypeOK, Configured, OnlyMeasured, GoesOn
<1>8. Before'
  BY SMT DEF Before, Chain, Over, TypeOK, Configured, GoesOn, OnlyMeasured, UnderWay, Untouched
<1> QED BY <1>1, <1>2, <1>3, <1>4, <1>5, <1>6, <1>7, <1>8

\* No conversion is spoilt here, but one of the temperature.
LEMMA SetChannelStep == SamplerInv /\ SetChannel => SamplerInv'
<1> SUFFICES ASSUME SamplerInv, SetChannel PROVE SamplerInv'
  OBVIOUS
<1> USE Numbers DEF SamplerInv, SetChannel, Running, ADC_ChannelCfg, Spoilt, halVars, history
<1>1. TypeOK'
  BY SMT DEF TypeOK
<1>2. Configured'
  BY SMT DEF Configured, TypeOK
<1>3. Tokens'
  BY SMT DEF Tokens, Over, TypeOK
<1>4. NoEarlyToken'
  BY SMT DEF NoEarlyToken, Over, Untouched, UnderWay, TypeOK, Configured, Tokens
<1>5. GoesOn'
  BY SMT DEF GoesOn, Over, UnderWay, Untouched, TypeOK
<1>6. OnlyMeasured'
  BY SMT DEF OnlyMeasured, Over, UnderWay, TypeOK, Configured
<1>7. Chain'
  BY SMT DEF Chain, Over, Untouched, UnderWay, TypeOK, Configured, OnlyMeasured, GoesOn
<1>8. Before'
  BY SMT DEF Before, Chain, Over, TypeOK, Configured
<1> QED BY <1>1, <1>2, <1>3, <1>4, <1>5, <1>6, <1>7, <1>8

\* Clearing the flag may stop a measurement of the temperature.
LEMMA ClearFlagStep == SamplerInv /\ ClearFlag => SamplerInv'
<1> SUFFICES ASSUME SamplerInv, ClearFlag PROVE SamplerInv'
  OBVIOUS
<1> USE Numbers DEF SamplerInv, ClearFlag, Running, ADC_ClearITFlag, halVars, history
<1>c. converting' \in Idle..Wrong
  BY SMT DEF TypeOK
<1>f. flag' \in BOOLEAN
  BY Zenon
<1>1. TypeOK'
  BY SMT, <1>c, <1>f DEF TypeOK
<1>2. Configured'
  BY SMT, <1>c, <1>f DEF Configured, TypeOK
<1>3. Tokens'
  BY SMT, <1>c, <1>f DEF Tokens, Over, TypeOK
<1>4. NoEarlyToken'
  BY SMT, <1>c, <1>f DEF NoEarlyToken, Over, Untouched, UnderWay, TypeOK, Configured, Tokens
<1>5. GoesOn'
  BY SMT, <1>c, <1>f DEF GoesOn, Over, UnderWay, Untouched, TypeOK
<1>6. OnlyMeasured'
  BY SMT, <1>c, <1>f DEF OnlyMeasured, Over, UnderWay, TypeOK, Configured
<1>7. Chain'
  BY SMT, <1>c, <1>f DEF Chain, Over, Untouched, UnderWay, TypeOK, Configured, OnlyMeasured, GoesOn
<1>8. Before'
  BY SMT, <1>c, <1>f DEF Before, Chain, Over, TypeOK, Configured
<1> QED BY <1>1, <1>2, <1>3, <1>4, <1>5, <1>6, <1>7, <1>8

\* The first conversion of the chain.
LEMMA StartChainStep == SamplerInv /\ StartChain => SamplerInv'
<1> SUFFICES ASSUME SamplerInv, StartChain PROVE SamplerInv'
  OBVIOUS
<1> USE Numbers DEF SamplerInv, StartChain, Running, ADC_StartUp, halVars, history
<1>1. TypeOK'
  BY SMT, Readings DEF TypeOK
<1>2. Configured'
  BY SMT, Readings DEF Configured, TypeOK
<1>3. Tokens'
  BY SMT, Readings DEF Tokens, Over, TypeOK
<1>4. NoEarlyToken'
  BY SMT, Readings DEF NoEarlyToken, Over, Untouched, UnderWay, TypeOK, Configured, Tokens
<1>5. GoesOn'
  BY SMT, Readings DEF GoesOn, Over, UnderWay, Untouched, TypeOK
<1>6. OnlyMeasured'
  BY SMT, Readings DEF OnlyMeasured, Over, UnderWay, TypeOK, Configured
<1>7. Chain'
  BY SMT, Readings DEF Chain, Over, Untouched, UnderWay, TypeOK, Configured, OnlyMeasured, GoesOn
<1>8. Before'
  BY SMT, Readings DEF Before, Chain, Over, TypeOK, Configured
<1> QED BY <1>1, <1>2, <1>3, <1>4, <1>5, <1>6, <1>7, <1>8

\* A token there means a chain that is over, or an early measurement.
LEMMA rt_sem_takeStep == SamplerInv /\ rt_sem_take => SamplerInv'
<1> SUFFICES ASSUME SamplerInv, rt_sem_take PROVE SamplerInv'
  OBVIOUS
<1> USE Numbers DEF SamplerInv, rt_sem_take, Running, halVars, history, converterVars
<1>1. TypeOK'
  BY SMT DEF TypeOK
<1>2. Configured'
  BY SMT DEF Configured, TypeOK
<1>3. Tokens'
  BY SMT DEF Tokens, Over, TypeOK
<1>4. NoEarlyToken'
  BY SMT DEF NoEarlyToken, Over, Untouched, UnderWay, TypeOK, Configured, Tokens
<1>5. GoesOn'
  BY SMT DEF GoesOn, Over, UnderWay, Untouched, TypeOK
<1>6. OnlyMeasured'
  BY SMT DEF OnlyMeasured, Over, UnderWay, TypeOK, Configured
<1>7. Chain'
  BY SMT DEF Chain, Over, Untouched, UnderWay, TypeOK, Configured, OnlyMeasured, GoesOn
<1>8. Before'
  BY SMT DEF Before, Chain, Over, TypeOK, Configured
<1> QED BY <1>1, <1>2, <1>3, <1>4, <1>5, <1>6, <1>7, <1>8

\* The pass ends with its chain over, unless an early measurement misled it.
LEMMA UseReadingsStep == SamplerInv /\ UseReadings => SamplerInv'
<1> SUFFICES ASSUME SamplerInv, UseReadings PROVE SamplerInv'
  OBVIOUS
<1> USE Numbers DEF SamplerInv, UseReadings, Running, halVars, history, converterVars
<1>1. TypeOK'
  BY SMT DEF TypeOK
<1>2. Configured'
  BY SMT DEF Configured, TypeOK
<1>3. Tokens'
  BY SMT DEF Tokens, Over, TypeOK
<1>4. NoEarlyToken'
  BY SMT DEF NoEarlyToken, Over, Untouched, UnderWay, TypeOK, Configured, Tokens
<1>5. GoesOn'
  BY SMT DEF GoesOn, Over, UnderWay, Untouched, TypeOK
<1>6. OnlyMeasured'
  BY SMT DEF OnlyMeasured, Over, UnderWay, TypeOK, Configured
<1>7. Chain'
  BY SMT DEF Chain, Over, Untouched, UnderWay, TypeOK, Configured, OnlyMeasured, GoesOn
<1>8. Before'
  BY SMT DEF Before, Chain, Over, TypeOK, Configured
<1> QED BY <1>1, <1>2, <1>3, <1>4, <1>5, <1>6, <1>7, <1>8

\* A measurement begins: the pass is not calm any more.
LEMMA SaveStep == SamplerInv /\ Save => SamplerInv'
<1> SUFFICES ASSUME SamplerInv, Save PROVE SamplerInv'
  OBVIOUS
<1> USE Numbers DEF SamplerInv, Save, Lowest, threadVars, converterVars
<1>e. /\ early \in BOOLEAN /\ early' \in BOOLEAN
      /\ early => early'
      /\ Untouched => early'
  BY Zenon DEF TypeOK, Untouched
<1>s. saved' \in (0..Temperature) \X {"stick"}
  BY SMT DEF TypeOK, Configured
<1>1. TypeOK'
  BY SMT, <1>e, <1>s DEF TypeOK
<1>2. Configured'
  BY SMT, <1>e, <1>s DEF Configured, TypeOK
<1>3. Tokens'
  BY SMT, <1>e, <1>s DEF Tokens, Over, TypeOK
<1>4. NoEarlyToken'
  BY SMT, <1>e, <1>s DEF NoEarlyToken, Over, Untouched, UnderWay, TypeOK, Configured, Tokens
<1>5. GoesOn'
  BY SMT, <1>e, <1>s DEF GoesOn, Over, UnderWay, Untouched, TypeOK
<1>6. OnlyMeasured'
  BY SMT, <1>e, <1>s DEF OnlyMeasured, Over, UnderWay, TypeOK, Configured
<1>7. Chain'
  BY SMT, <1>e, <1>s DEF Chain, Over, Untouched, UnderWay, TypeOK, Configured, OnlyMeasured, GoesOn
<1>8. Before'
  BY SMT, <1>e, <1>s DEF Before, Chain, Over, TypeOK, Configured
<1> QED BY <1>1, <1>2, <1>3, <1>4, <1>5, <1>6, <1>7, <1>8

\* From here on the readings of a chain under way are wrong.
LEMMA SetTemperatureStep == SamplerInv /\ SetTemperature => SamplerInv'
<1> SUFFICES ASSUME SamplerInv, SetTemperature PROVE SamplerInv'
  OBVIOUS
<1> USE Numbers DEF SamplerInv, SetTemperature, Lowest, threadVars, ADC_ChannelCfg, Spoilt
<1>1. TypeOK'
  BY SMT DEF TypeOK
<1>2. Configured'
  BY SMT DEF Configured, TypeOK
<1>3. Tokens'
  BY SMT DEF Tokens, Over, TypeOK
<1>4. NoEarlyToken'
  BY SMT DEF NoEarlyToken, Over, Untouched, UnderWay, TypeOK, Configured, Tokens
<1>5. GoesOn'
  BY SMT DEF GoesOn, Over, UnderWay, Untouched, TypeOK
<1>6. OnlyMeasured'
  BY SMT DEF OnlyMeasured, Over, UnderWay, TypeOK, Configured
<1>7. Chain'
  BY SMT DEF Chain, Over, Untouched, UnderWay, TypeOK, Configured, OnlyMeasured, GoesOn
<1>8. Before'
  BY SMT DEF Before, Chain, Over, TypeOK, Configured
<1> QED BY <1>1, <1>2, <1>3, <1>4, <1>5, <1>6, <1>7, <1>8

\* The configuration is the sensor's.
LEMMA ConfigureStep == SamplerInv /\ Configure => SamplerInv'
<1> SUFFICES ASSUME SamplerInv, Configure PROVE SamplerInv'
  OBVIOUS
<1> USE Numbers DEF SamplerInv, Configure, Lowest, threadVars, Spoilt
<1>1. TypeOK'
  BY SMT DEF TypeOK
<1>2. Configured'
  BY SMT DEF Configured, TypeOK
<1>3. Tokens'
  BY SMT DEF Tokens, Over, TypeOK
<1>4. NoEarlyToken'
  BY SMT DEF NoEarlyToken, Over, Untouched, UnderWay, TypeOK, Configured, Tokens
<1>5. GoesOn'
  BY SMT DEF GoesOn, Over, UnderWay, Untouched, TypeOK
<1>6. OnlyMeasured'
  BY SMT DEF OnlyMeasured, Over, UnderWay, TypeOK, Configured
<1>7. Chain'
  BY SMT DEF Chain, Over, Untouched, UnderWay, TypeOK, Configured, OnlyMeasured, GoesOn
<1>8. Before'
  BY SMT DEF Before, Chain, Over, TypeOK, Configured
<1> QED BY <1>1, <1>2, <1>3, <1>4, <1>5, <1>6, <1>7, <1>8

\* The conversion of the sensor stands in for the one of the chain it ended.
LEMMA StartTemperatureStep == SamplerInv /\ StartTemperature => SamplerInv'
<1> SUFFICES ASSUME SamplerInv, StartTemperature PROVE SamplerInv'
  OBVIOUS
<1> USE Numbers DEF SamplerInv, StartTemperature, Lowest, threadVars, ADC_StartUp
<1>1. TypeOK'
  BY SMT, Readings DEF TypeOK
<1>2. Configured'
  BY SMT, Readings DEF Configured, TypeOK
<1>3. Tokens'
  BY SMT, Readings DEF Tokens, Over, TypeOK
<1>4. NoEarlyToken'
  BY SMT, Readings DEF NoEarlyToken, Over, Untouched, UnderWay, TypeOK, Configured, Tokens
<1>5. GoesOn'
  BY SMT, Readings DEF GoesOn, Over, UnderWay, Untouched, TypeOK
<1>6. OnlyMeasured'
  BY SMT, Readings DEF OnlyMeasured, Over, UnderWay, TypeOK, Configured
<1>7. Chain'
  BY SMT, Readings DEF Chain, Over, Untouched, UnderWay, TypeOK, Configured, OnlyMeasured, GoesOn
<1>8. Before'
  BY SMT, Readings DEF Before, Chain, Over, TypeOK, Configured
<1> QED BY <1>1, <1>2, <1>3, <1>4, <1>5, <1>6, <1>7, <1>8

\* The main thread waits for the chain, whose interrupts come first.
LEMMA PollStep == SamplerInv /\ Poll => SamplerInv'
<1> SUFFICES ASSUME SamplerInv, Poll PROVE SamplerInv'
  OBVIOUS
<1> USE Numbers DEF SamplerInv, Poll, Lowest, threadVars, converterVars
<1>1. TypeOK'
  BY SMT DEF TypeOK
<1>2. Configured'
  BY SMT DEF Configured, TypeOK
<1>3. Tokens'
  BY SMT DEF Tokens, Over, TypeOK
<1>4. NoEarlyToken'
  BY SMT DEF NoEarlyToken, Over, Untouched, UnderWay, TypeOK, Configured, Tokens
<1>5. GoesOn'
  BY SMT DEF GoesOn, Over, UnderWay, Untouched, TypeOK
<1>6. OnlyMeasured'
  BY SMT DEF OnlyMeasured, Over, UnderWay, TypeOK, Configured
<1>7. Chain'
  BY SMT DEF Chain, Over, Untouched, UnderWay, TypeOK, Configured, OnlyMeasured, GoesOn
<1>8. Before'
  BY SMT DEF Before, Chain, Over, TypeOK, Configured
<1> QED BY <1>1, <1>2, <1>3, <1>4, <1>5, <1>6, <1>7, <1>8

\* The channel is put back, under the chain if that goes on.
LEMMA RestoreChannelStep == SamplerInv /\ RestoreChannel => SamplerInv'
<1> SUFFICES ASSUME SamplerInv, RestoreChannel PROVE SamplerInv'
  OBVIOUS
<1> USE Numbers DEF SamplerInv, RestoreChannel, Lowest, threadVars, ADC_ChannelCfg, Spoilt
<1>1. TypeOK'
  BY SMT DEF TypeOK
<1>2. Configured'
  BY SMT DEF Configured, TypeOK
<1>3. Tokens'
  BY SMT DEF Tokens, Over, TypeOK
<1>4. NoEarlyToken'
  BY SMT DEF NoEarlyToken, Over, Untouched, UnderWay, TypeOK, Configured, Tokens
<1>5. GoesOn'
  BY SMT DEF GoesOn, Over, UnderWay, Untouched, TypeOK
<1>6. OnlyMeasured'
  BY SMT DEF OnlyMeasured, Over, UnderWay, TypeOK, Configured
<1>7. Chain'
  BY SMT DEF Chain, Over, Untouched, UnderWay, TypeOK, Configured, OnlyMeasured, GoesOn
<1>8. Before'
  BY SMT DEF Before, Chain, Over, TypeOK, Configured
<1> QED BY <1>1, <1>2, <1>3, <1>4, <1>5, <1>6, <1>7, <1>8

\* The configuration is put back.
LEMMA RestoreConfigStep == SamplerInv /\ RestoreConfig => SamplerInv'
<1> SUFFICES ASSUME SamplerInv, RestoreConfig PROVE SamplerInv'
  OBVIOUS
<1> USE Numbers DEF SamplerInv, RestoreConfig, Lowest, threadVars, Spoilt
<1>1. TypeOK'
  BY SMT DEF TypeOK
<1>2. Configured'
  BY SMT DEF Configured, TypeOK
<1>3. Tokens'
  BY SMT DEF Tokens, Over, TypeOK
<1>4. NoEarlyToken'
  BY SMT DEF NoEarlyToken, Over, Untouched, UnderWay, TypeOK, Configured, Tokens
<1>5. GoesOn'
  BY SMT DEF GoesOn, Over, UnderWay, Untouched, TypeOK
<1>6. OnlyMeasured'
  BY SMT DEF OnlyMeasured, Over, UnderWay, TypeOK, Configured
<1>7. Chain'
  BY SMT DEF Chain, Over, Untouched, UnderWay, TypeOK, Configured, OnlyMeasured, GoesOn
<1>8. Before'
  BY SMT DEF Before, Chain, Over, TypeOK, Configured
<1> QED BY <1>1, <1>2, <1>3, <1>4, <1>5, <1>6, <1>7, <1>8

\* The end of a conversion is one with its interrupt for the invariant.
LEMMA ConversionEndsStep == SamplerInv /\ ConversionEnds => SamplerInv'
<1> SUFFICES ASSUME SamplerInv, ConversionEnds PROVE SamplerInv'
  OBVIOUS
<1> USE Numbers DEF SamplerInv, ConversionEnds, threadVars, halVars, history
<1>1. TypeOK'
  BY SMT DEF TypeOK
<1>2. Configured'
  BY SMT DEF Configured, TypeOK
<1>3. Tokens'
  BY SMT DEF Tokens, Over, TypeOK
<1>4. NoEarlyToken'
  BY SMT DEF NoEarlyToken, Over, Untouched, UnderWay, TypeOK, Configured, Tokens
<1>5. GoesOn'
  BY SMT DEF GoesOn, Over, UnderWay, Untouched, TypeOK
<1>6. OnlyMeasured'
  BY SMT DEF OnlyMeasured, Over, UnderWay, TypeOK, Configured
<1>7. Chain'
  BY SMT DEF Chain, Over, Untouched, UnderWay, TypeOK, Configured, OnlyMeasured, GoesOn
<1>8. Before'
  BY SMT DEF Before, Chain, Over, TypeOK, Configured
<1> QED BY <1>1, <1>2, <1>3, <1>4, <1>5, <1>6, <1>7, <1>8

\* The interrupt of a measurement that ends after the chain.
LEMMA IgnoreStep == SamplerInv /\ ADC_IRQHandler /\ Ignore => SamplerInv'
<1> SUFFICES ASSUME SamplerInv, ADC_IRQHandler, Ignore PROVE SamplerInv'
  OBVIOUS
<1> USE Numbers DEF SamplerInv, ADC_IRQHandler, Ignore, threadVars, halVars
<1>f. flag' \in BOOLEAN
  BY Zenon
<1>1. TypeOK'
  BY SMT, <1>f DEF TypeOK
<1>2. Configured'
  BY SMT DEF Configured, TypeOK
<1>3. Tokens'
  BY SMT DEF Tokens, Over, TypeOK
<1>4. NoEarlyToken'
  BY SMT DEF NoEarlyToken, Over, Untouched, UnderWay, TypeOK, Configured, Tokens
<1>5. GoesOn'
  BY SMT DEF GoesOn, Over, UnderWay, Untouched, TypeOK
<1>6. OnlyMeasured'
  BY SMT DEF OnlyMeasured, Over, UnderWay, TypeOK, Configured
<1>7. Chain'
  BY SMT DEF Chain, Over, Untouched, UnderWay, TypeOK, Configured, OnlyMeasured, GoesOn
<1>8. Before'
  BY SMT DEF Before, Chain, Over, TypeOK, Configured
<1> QED BY <1>1, <1>2, <1>3, <1>4, <1>5, <1>6, <1>7, <1>8

\* The interrupt of a conversion that is not the last of its chain.
LEMMA StoreStep == SamplerInv /\ ADC_IRQHandler /\ Store /\ More(conver_index) => SamplerInv'
<1> SUFFICES ASSUME SamplerInv, ADC_IRQHandler, Store, More(conver_index) PROVE SamplerInv'
  OBVIOUS
<1> USE Numbers DEF SamplerInv, ADC_IRQHandler, Store, More, halVars
<1>f. flag' \in BOOLEAN
  BY Zenon
<1>r. /\ Reading(conver_index + 1, config) \in 0..Wrong
      /\ conver_index + 1 \in Sticks /\ config = "stick" =>
             Reading(conver_index + 1, config) = conver_index + 1
  BY Readings, SMT DEF TypeOK
<1>1. TypeOK'
  BY SMT, <1>r, <1>f DEF TypeOK
<1>2. Configured'
  BY SMT, <1>r DEF Configured, TypeOK
<1>3. Tokens'
  BY SMT, <1>r DEF Tokens, Over, TypeOK
<1>4. NoEarlyToken'
  BY SMT, <1>r DEF NoEarlyToken, Over, Untouched, UnderWay, TypeOK, Configured, Tokens
<1>5. GoesOn'
  BY SMT, <1>r DEF GoesOn, Over, UnderWay, Untouched, TypeOK
<1>6. OnlyMeasured'
  BY SMT, <1>r DEF OnlyMeasured, Over, UnderWay, TypeOK, Configured
<1>7. Chain'
  BY SMT, <1>r DEF Chain, Over, Untouched, UnderWay, TypeOK, Configured, OnlyMeasured, GoesOn
<1>8. Before'
  BY SMT, <1>r DEF Before, Chain, Over, TypeOK, Configured, OnlyMeasured, UnderWay, Untouched
<1> QED BY <1>1, <1>2, <1>3, <1>4, <1>5, <1>6, <1>7, <1>8

\* The last interrupt of a chain.
LEMMA LastStep == SamplerInv /\ ADC_IRQHandler /\ Store /\ ~More(conver_index) => SamplerInv'
<1> SUFFICES ASSUME SamplerInv, ADC_IRQHandler, Store, ~More(conver_index) PROVE SamplerInv'
  OBVIOUS
<1> USE Numbers DEF SamplerInv, ADC_IRQHandler, Store, More, rt_sem_release, halVars
<1>f. flag' \in BOOLEAN
  BY Zenon
<1>1. TypeOK'
  BY SMT, <1>f DEF TypeOK, Tokens, Over
<1>2. Configured'
  BY SMT DEF Configured, TypeOK
<1>3. Tokens'
  BY SMT DEF Tokens, Over, TypeOK
<1>4. NoEarlyToken'
  BY SMT DEF NoEarlyToken, Over, Untouched, UnderWay, TypeOK, Configured, Tokens
<1>5. GoesOn'
  BY SMT DEF GoesOn, Over, UnderWay, Untouched, TypeOK
<1>6. OnlyMeasured'
  BY SMT DEF OnlyMeasured, Over, UnderWay, TypeOK, Configured
<1>7. Chain'
  BY SMT DEF Chain, Over, Untouched, UnderWay, TypeOK, Configured, OnlyMeasured, GoesOn
<1>8. Before'
  BY SMT DEF Before, Chain, Over, TypeOK, Configured
<1> QED BY <1>1, <1>2, <1>3, <1>4, <1>5, <1>6, <1>7, <1>8

LEMMA SamplerInductive == SamplerInv /\ [Next]_vars => SamplerInv'
<1> SUFFICES ASSUME SamplerInv, [Next]_vars PROVE SamplerInv'
  OBVIOUS
<1>1. CASE Thread
  BY <1>1, BeginStep, SetChannelStep, ClearFlagStep, StartChainStep, rt_sem_takeStep,
     UseReadingsStep DEF Thread
<1>2. CASE ADC_IRQHandler
  BY <1>2, IgnoreStep, StoreStep, LastStep DEF ADC_IRQHandler
<1>3. CASE ConversionEnds
  BY <1>3, ConversionEndsStep
<1>4. CASE HAL_GetInterTempValue
  BY <1>4, SaveStep, SetTemperatureStep, ConfigureStep, StartTemperatureStep, PollStep,
     RestoreChannelStep, RestoreConfigStep DEF HAL_GetInterTempValue
<1>5. CASE UNCHANGED vars
  BY <1>5 DEF vars, threadVars, converterVars, halVars, history, SamplerInv, TypeOK, Configured,
     Tokens, NoEarlyToken, GoesOn, OnlyMeasured, Chain, Before, Over, UnderWay, Untouched
<1> QED BY <1>1, <1>2, <1>3, <1>4, <1>5 DEF Next

LEMMA SamplerInitInv == Init => SamplerInv
<1> SUFFICES ASSUME Init PROVE SamplerInv
  OBVIOUS
<1>f. flag \in BOOLEAN /\ early \in BOOLEAN
  BY Zenon DEF Init
<1>1. TypeOK
  BY <1>f, Numbers, SMT DEF Init, TypeOK
<1>2. Configured /\ Tokens /\ NoEarlyToken /\ GoesOn /\ OnlyMeasured /\ Before
  BY Numbers, SMT DEF Init, Configured, Tokens, NoEarlyToken, GoesOn, OnlyMeasured, Before,
     Over, UnderWay, Untouched
<1>3. Chain
  BY DEF Init, Chain, Untouched, UnderWay
<1> QED BY <1>1, <1>2, <1>3 DEF SamplerInv

LEMMA SamplerInvariance == Spec => []SamplerInv
BY SamplerInitInv, SamplerInductive, PTL DEF Spec

\* The variables keep their types whatever the order of interrupts and threads.
THEOREM SamplerTypeCorrect == Spec => []TypeOK
<1>1. SamplerInv => TypeOK
  BY DEF SamplerInv
<1> QED BY <1>1, SamplerInvariance, PTL

\* A pass in which the temperature was not measured uses its own readings.
THEOREM OwnReadingsUsed == Spec => []OwnReadings
<1>1. SamplerInv => OwnReadings
  <2> SUFFICES ASSUME SamplerInv, pc = "use"
               PROVE  /\ calm >= 1 /\ ~early => \A c \in Sticks : age[c] = 0
                      /\ calm = 2 => \A c \in Sticks : age[c] <= 1
    BY DEF OwnReadings
  <2>1. ASSUME calm >= 1, ~early PROVE \A c \in Sticks : age[c] = 0
    <3>1. Over /\ ~Untouched
      BY <2>1 DEF SamplerInv, NoEarlyToken, Untouched
    <3> QED BY <2>1, <3>1, Numbers, SMT DEF SamplerInv, Chain, Over
  <2>2. ASSUME calm = 2 PROVE \A c \in Sticks : age[c] <= 1
    <3>1. CASE early
      BY <2>2, <3>1 DEF SamplerInv, Before
    <3>2. CASE ~early
      <4>1. \A c \in Sticks : age[c] = 0
        BY <2>1, <2>2, <3>2, SMT
      <4> QED BY <4>1, SMT
    <3> QED BY <3>1, <3>2
  <2> QED BY <2>1, <2>2
<1> QED BY <1>1, SamplerInvariance, PTL

\* The radio thread never waits for a chain that has stopped: a conversion or
\* its interrupt is then still to come.
THEOREM NeverStuck == Spec => [](pc = "wait" => converting # Idle \/ flag)
<1>1. SamplerInv => (pc = "wait" => converting # Idle \/ flag)
  BY DEF SamplerInv, GoesOn, Tokens, Over, UnderWay, Untouched
<1> QED BY <1>1, SamplerInvariance, PTL

\* The conversions and interrupts that a waiting thread still waits for.
ToCome == 2 * (ADC_CHANNEL_MAX - conver_index) - (IF flag THEN 1 ELSE 0)

\* While the radio thread waits, every conversion and every interrupt brings its
\* pass one nearer, and a measurement of the temperature, though it spoils the
\* readings, never sends the chain back.
THEOREM WaitRunsDown ==
    Spec => /\ [](pc = "wait" => ToCome \in 1..(2 * ADC_CHANNEL_MAX))
            /\ [][pc = "wait" => \/ ToCome' = ToCome - 1
                                 \/ ToCome' = ToCome /\ HAL_GetInterTempValue]_vars
<1>1. SamplerInv => (pc = "wait" => ToCome \in 1..(2 * ADC_CHANNEL_MAX))
  <2> SUFFICES ASSUME SamplerInv, pc = "wait" PROVE ToCome \in 1..(2 * ADC_CHANNEL_MAX)
    OBVIOUS
  <2>1. conver_index \in 0..ADC_CHANNEL_MAX /\ conver_index # ADC_CHANNEL_MAX
    BY DEF SamplerInv, TypeOK, Tokens, Over
  <2> QED BY <2>1, Numbers, SMT DEF ToCome
<1>2. SamplerInv /\ [Next]_vars =>
        [pc = "wait" => \/ ToCome' = ToCome - 1
                        \/ ToCome' = ToCome /\ HAL_GetInterTempValue]_vars
  <2> SUFFICES ASSUME SamplerInv, Next, pc = "wait"
               PROVE  \/ ToCome' = ToCome - 1
                      \/ ToCome' = ToCome /\ HAL_GetInterTempValue
    OBVIOUS
  <2>1. /\ conver_index \in 0..ADC_CHANNEL_MAX /\ conver_index # ADC_CHANNEL_MAX
        /\ ADC_CHANNEL_MAX \in Nat
    BY Numbers DEF SamplerInv, TypeOK, Tokens, Over
  <2>2. ~Thread
    BY DEF Thread, Begin, SetChannel, ClearFlag, StartChain, rt_sem_take, UseReadings
  <2>3. CASE ConversionEnds
    <3>1. ~flag /\ flag' /\ conver_index' = conver_index
      BY <2>3 DEF ConversionEnds, threadVars
    <3> QED BY <2>1, <3>1, SMT DEF ToCome
  <2>4. CASE ADC_IRQHandler
    <3>1. flag /\ ~flag' /\ conver_index' = conver_index + 1
      BY <2>1, <2>4, SMT DEF ADC_IRQHandler, Store, Ignore
    <3> QED BY <2>1, <3>1, SMT DEF ToCome
  <2>5. CASE HAL_GetInterTempValue
    <3>1. conver_index' = conver_index /\ flag' = flag
      BY <2>5 DEF HAL_GetInterTempValue, Save, SetTemperature, Configure, StartTemperature,
         Poll, RestoreChannel, RestoreConfig, Lowest, ADC_ChannelCfg, ADC_StartUp,
         threadVars, converterVars
    <3> QED BY <2>5, <3>1 DEF ToCome
  <2> QED BY <2>2, <2>3, <2>4, <2>5 DEF Next
<1> QED BY <1>1, <1>2, SamplerInvariance, PTL DEF Spec

-----------------------------------------------------------------------------
(***************************************************************************)
(* Encoder: what it counts when its interrupts are prompt, and which way   *)
(* it counts when they are not.                                            *)
(***************************************************************************)
KnobTypes ==
    /\ knob \in Int /\ prompt \in BOOLEAN
    /\ edge \in {"fall", "rise"} /\ irq \in BOOLEAN
    /\ hpc \in {"idle", "read B", "count", "arm", "armed", "end"}
    /\ astat \in {0, 1} /\ bstat \in {0, 1} /\ state \in 0..3 /\ pos \in Int
    /\ now \in [at : Int, still : BOOLEAN] /\ last \in [at : Int, still : BOOLEAN]
    /\ kpc \in {"start", "look", "direction", "keep"}
    /\ left_last_pos \in Int /\ new_mode \in 0..2 /\ selections \in Nat

\* What was sampled while the knob stood still is where it stood.
SampleTells ==
    /\ last.still => state = Pins(last.at)
    /\ hpc = "read B" => astat = A(now.at)
    /\ hpc = "count" /\ now.still => astat = A(now.at) /\ bstat = B(now.at)

\* Pin A in a state, and the two states that prompt samples find clockwise.
Level(s) == IF s \in {2, 3} THEN 1 ELSE 0
Up(s)    == IF s \in {0, 3} THEN 1 ELSE 0

\* The count that stands for anticlockwise.
Zero == pos - Up(state)

\* Prompt interrupts: none has been taken, or the count is one of two.
TwoCounts ==
    /\ ~last.still => /\ edge = "fall" /\ state = 0 /\ pos = 0
                      /\ hpc \in {"idle", "read B", "count"}
    /\ last.still => Zero \in {-1, 1}

\* The state is that of pin A but after its edge, and the other edge is armed.
FollowsPin ==
    /\ hpc = "idle" /\ ~irq /\ last.still => Level(state) = A(knob)
    /\ hpc \in {"read B", "count"} \/ (hpc = "idle" /\ irq) =>
           IF last.still THEN Level(state) # A(knob) ELSE A(knob) = 0
    /\ hpc \in {"read B", "count"} => astat = A(knob) /\ now.still /\ now.at = knob
    /\ hpc \in {"arm", "armed", "end"} => Level(state) = A(knob) /\ astat = A(knob)
    /\ hpc # "arm" /\ last.still => (edge = "fall") = (Level(state) = 1)

\* Only a count of two, from the zero of power-on, selects.
Selected ==
    /\ kpc = "start" => selections = 0
    /\ kpc = "look" => \/ /\ selections = 0
                          /\ left_last_pos = 0 \/ (last.still /\ left_last_pos - Zero \in {0, 1})
                       \/ selections = 1 /\ last.still /\ Zero = 1 /\ left_last_pos \in {1, 2}
    /\ kpc = "direction" => last.still /\ Zero = 1 /\ selections = 0
    /\ kpc = "keep" => last.still /\ Zero = 1 /\ selections = 1

KnobInv ==
    /\ KnobTypes /\ SampleTells
    /\ prompt => TwoCounts /\ FollowsPin /\ Selected

-----------------------------------------------------------------------------
\* The waveforms over one click.
LEMMA Phases ==
    ASSUME NEW k \in Int
    PROVE  /\ k % 4 \in 0..3
           /\ (k + 1) % 4 = IF k % 4 = 3 THEN 0 ELSE (k % 4) + 1
           /\ (k - 1) % 4 = IF k % 4 = 0 THEN 3 ELSE (k % 4) - 1
BY SMT

LEMMA Levels == ASSUME NEW k \in Int PROVE A(k) \in {0, 1} /\ B(k) \in {0, 1}
BY DEF A, B

LEMMA OnePin ==
    ASSUME NEW k \in Int
    PROVE  Pins(k) = CASE k % 4 = 0 -> 3 [] k % 4 = 1 -> 2 [] k % 4 = 2 -> 0 [] OTHER -> 1
BY Phases, SMT DEF A, B, Pins

\* A quarter turn between two samples counts one, its way; two count nothing.
LEMMA CountFits ==
    ASSUME NEW j \in Int, NEW k \in Int, Distance(k, j) <= 2, Count(Pins(j), Pins(k)) # 0
    PROVE  Count(Pins(j), Pins(k)) = k - j
<1>1. k = j \/ k = j + 1 \/ k = j - 1 \/ k = (j + 1) + 1 \/ k = (j - 1) - 1
  BY SMT DEF Distance
<1>2. j % 4 \in 0..3 /\ j + 1 \in Int /\ j - 1 \in Int
  BY Phases, SMT
<1>3. CASE k = j
  BY <1>2, <1>3, OnePin, SMT DEF Count
<1>4. CASE k = j + 1
  <2>1. k % 4 = IF j % 4 = 3 THEN 0 ELSE (j % 4) + 1
    BY <1>4, Phases
  <2>2. Count(Pins(j), Pins(k)) = 1
    BY <1>2, <2>1, OnePin, SMT DEF Count
  <2> QED BY <1>4, <2>2, SMT
<1>5. CASE k = j - 1
  <2>1. k % 4 = IF j % 4 = 0 THEN 3 ELSE (j % 4) - 1
    BY <1>5, Phases
  <2>2. Count(Pins(j), Pins(k)) = -1
    BY <1>2, <2>1, OnePin, SMT DEF Count
  <2> QED BY <1>5, <2>2, SMT
<1>6. CASE k = (j + 1) + 1
  <2>1. (j + 1) % 4 = IF j % 4 = 3 THEN 0 ELSE (j % 4) + 1
    BY Phases
  <2>2. k % 4 = IF (j + 1) % 4 = 3 THEN 0 ELSE ((j + 1) % 4) + 1
    BY <1>2, <1>6, Phases
  <2>3. Count(Pins(j), Pins(k)) = 0
    BY <1>2, <2>1, <2>2, OnePin, SMT DEF Count
  <2> QED BY <2>3
<1>7. CASE k = (j - 1) - 1
  <2>1. (j - 1) % 4 = IF j % 4 = 0 THEN 3 ELSE (j % 4) - 1
    BY Phases
  <2>2. k % 4 = IF (j - 1) % 4 = 0 THEN 3 ELSE ((j - 1) % 4) - 1
    BY <1>2, <1>7, Phases
  <2>3. Count(Pins(j), Pins(k)) = 0
    BY <1>2, <2>1, <2>2, OnePin, SMT DEF Count
  <2> QED BY <2>3
<1> QED BY <1>1, <1>3, <1>4, <1>5, <1>6, <1>7

\* When pin A has changed, the count only tells the direction; the first
\* sample, of a low pin A, is compared with zeros that were never read.
LEMMA PromptCount ==
    ASSUME NEW s \in 0..3, NEW a \in {0, 1}, NEW b \in {0, 1}
    PROVE  /\ 2 * a + b \in 0..3 /\ Level(2 * a + b) = a /\ Count(s, 2 * a + b) \in Int
           /\ Level(s) # a => Count(s, 2 * a + b) = Up(2 * a + b) - Up(s)
           /\ a = 0 => Count(0, 2 * a + b) - Up(2 * a + b) \in {-1, 1}
<1>1. s \in {0, 1, 2, 3}
  BY SMT
<1>2. CASE a = 0
  BY <1>1, <1>2, SMT DEF Level, Up, Count
<1>3. CASE a = 1
  BY <1>1, <1>3, SMT DEF Level, Up, Count
<1> QED BY <1>2, <1>3

-----------------------------------------------------------------------------
LEMMA KnobInitInv == KnobInit => KnobInv
<1> SUFFICES ASSUME KnobInit PROVE KnobInv
  OBVIOUS
<1>1. knob \in Int /\ 0 \in 0..3 /\ 0 \in Nat /\ 0 \in Int /\ 1 \in 0..2
  BY SMT DEF KnobInit
<1>2. KnobTypes
  <2>1. now \in [at : Int, still : BOOLEAN] /\ last = now
    BY <1>1 DEF KnobInit
  <2> QED BY <1>1, <2>1, Zenon DEF KnobInit, KnobTypes
<1> QED BY <1>2 DEF KnobInit, KnobInv, SampleTells, TwoCounts, FollowsPin, Selected

\* A prompt quarter turn changes pin A exactly when the armed edge comes.
LEMMA TurnStep == ASSUME KnobInv, NEW d \in {-1, 1}, Turn(d) PROVE KnobInv'
<1>1. /\ knob \in Int /\ knob' = knob + d /\ knob' \in Int
      /\ irq' = (irq \/ Interrupts(knob')) /\ prompt' = (prompt /\ hpc = "idle" /\ ~irq)
      /\ UNCHANGED <<hpc, astat, bstat, edge, state, pos, now, last, selectVars>>
  <2>1. knob \in Int /\ knob' = knob + d
    BY DEF Turn, KnobInv, KnobTypes
  <2>2. knob' \in Int
    BY <2>1, SMT
  <2> QED BY <2>1, <2>2, Zenon DEF Turn, handlerVars
<1>2. KnobTypes'
  BY <1>1 DEF KnobInv, KnobTypes, selectVars
<1>3. SampleTells'
  BY <1>1 DEF KnobInv, SampleTells
<1>4. ASSUME prompt' PROVE (TwoCounts /\ FollowsPin /\ Selected)'
  <2>1. prompt /\ hpc = "idle" /\ ~irq /\ (irq' <=> Interrupts(knob'))
    BY <1>1, <1>4, Zenon
  <2>2. (TwoCounts /\ Selected)'
    BY <1>1, <2>1 DEF KnobInv, TwoCounts, Selected, Zero, selectVars
  <2>3. A(knob) \in {0, 1} /\ A(knob') \in {0, 1} /\ Level(state) \in {0, 1}
    BY <1>1, Levels DEF Level
  <2>4. edge \in {"fall", "rise"}
    BY DEF KnobInv, KnobTypes
  <2>5. CASE last.still
    <3>1. Level(state) = A(knob) /\ (edge = "fall") = (Level(state) = 1)
      BY <2>1, <2>5 DEF KnobInv, FollowsPin
    <3>2. irq' <=> A(knob') # A(knob)
      BY <2>1, <2>3, <2>4, <3>1 DEF Interrupts
    <3> QED BY <1>1, <2>1, <2>2, <2>5, <3>1, <3>2 DEF FollowsPin
  <2>6. CASE ~last.still
    <3>1. irq' => A(knob') = 0
      BY <2>1, <2>6 DEF KnobInv, TwoCounts, Interrupts
    <3> QED BY <1>1, <2>1, <2>2, <2>6, <3>1 DEF FollowsPin
  <2> QED BY <2>5, <2>6
<1> QED BY <1>2, <1>3, <1>4 DEF KnobInv

LEMMA ReadStep == KnobInv /\ (ReadA \/ ReadB) => KnobInv'
<1> SUFFICES ASSUME KnobInv, ReadA \/ ReadB PROVE KnobInv'
  OBVIOUS
<1>t. KnobTypes /\ SampleTells /\ (prompt => TwoCounts /\ FollowsPin /\ Selected)
  BY DEF KnobInv
<1>1. UNCHANGED <<edge, state, pos, last, irq, knob, prompt, selectVars>>
  BY DEF ReadA, ReadB, turnVars
<1>2. knob \in Int /\ A(knob) \in {0, 1} /\ B(knob) \in {0, 1}
  BY <1>t, Levels DEF KnobTypes
<1>3. prompt' => TwoCounts'
  BY <1>1, <1>t DEF TwoCounts, Zero, ReadA, ReadB
<1>4. prompt' => Selected'
  BY <1>1, <1>t DEF Selected, Zero, selectVars
<1>5. CASE ReadA
  <2>1. /\ astat' = A(knob) /\ hpc' = "read B" /\ hpc = "idle" /\ irq /\ bstat' = bstat
        /\ now' = [at |-> knob, still |-> TRUE]
    BY <1>5 DEF ReadA
  <2>2. KnobTypes'
    BY <1>1, <1>2, <1>t, <2>1 DEF KnobTypes, selectVars
  <2>3. SampleTells'
    BY <1>1, <1>t, <2>1 DEF SampleTells
  <2>4. prompt' => FollowsPin'
    BY <1>1, <1>t, <2>1 DEF FollowsPin
  <2> QED BY <1>3, <1>4, <2>2, <2>3, <2>4 DEF KnobInv
<1>6. CASE ReadB
  <2>1. /\ bstat' = B(knob) /\ hpc' = "count" /\ hpc = "read B" /\ astat' = astat
        /\ now' = [now EXCEPT !.still = (knob = now.at)]
    BY <1>6 DEF ReadB
  <2>2. now'.at = now.at /\ now'.still = (knob = now.at) /\ now' \in [at : Int, still : BOOLEAN]
    BY <1>t, <2>1 DEF KnobTypes
  <2>3. KnobTypes'
    BY <1>1, <1>2, <1>t, <2>1, <2>2 DEF KnobTypes, selectVars
  <2>4. SampleTells'
    BY <1>1, <1>t, <2>1, <2>2 DEF SampleTells
  <2>5. prompt' => FollowsPin'
    BY <1>1, <1>t, <2>1, <2>2 DEF FollowsPin
  <2> QED BY <1>3, <1>4, <2>3, <2>4, <2>5 DEF KnobInv
<1> QED BY <1>5, <1>6

\* A count leaves what stands for anticlockwise as it is.
LEMMA CountStep == KnobInv /\ state_change => KnobInv'
<1> SUFFICES ASSUME KnobInv, state_change PROVE KnobInv'
  OBVIOUS
<1>t. KnobTypes /\ SampleTells /\ (prompt => TwoCounts /\ FollowsPin /\ Selected)
  BY DEF KnobInv
<1>1. /\ state' = 2 * astat + bstat /\ pos' = pos + Count(state, state')
      /\ hpc = "count" /\ hpc' = "arm" /\ last' = now
      /\ UNCHANGED <<astat, bstat, edge, now, irq, knob, prompt, selectVars>>
  BY DEF state_change, turnVars
<1>2. /\ state' \in 0..3 /\ Level(state') = astat /\ Count(state, state') \in Int
      /\ Level(state) # astat => Count(state, state') = Up(state') - Up(state)
      /\ astat = 0 => Count(0, state') - Up(state') \in {-1, 1}
  BY <1>1, <1>t, PromptCount DEF KnobTypes
<1>3. pos \in Int /\ pos' \in Int
  BY <1>1, <1>2, <1>t, SMT DEF KnobTypes
<1>4. KnobTypes'
  BY <1>1, <1>2, <1>3, <1>t DEF KnobTypes, selectVars
<1>5. SampleTells'
  BY <1>1, <1>t DEF SampleTells, Pins
<1>6. ASSUME prompt PROVE (TwoCounts /\ FollowsPin /\ Selected)'
  <2>1. astat = A(knob) /\ now.still /\ last'.still
    BY <1>1, <1>6, <1>t DEF FollowsPin
  <2>2. Zero' \in {-1, 1} /\ (last.still => Zero' = Zero)
    <3>1. CASE last.still
      <4>1. Zero \in {-1, 1} /\ Level(state) # astat
        BY <1>1, <1>6, <1>t, <2>1, <3>1 DEF TwoCounts, FollowsPin
      <4>2. pos' = pos + (Up(state') - Up(state)) /\ Up(state) \in Int /\ Up(state') \in Int
        BY <1>1, <1>2, <4>1 DEF Up
      <4>3. Zero' = Zero
        BY <1>3, <4>2, SMT DEF Zero
      <4> QED BY <4>1, <4>3
    <3>2. CASE ~last.still
      <4>1. state = 0 /\ pos = 0 /\ astat = 0
        BY <1>1, <1>6, <1>t, <2>1, <3>2 DEF TwoCounts, FollowsPin
      <4>2. pos' = Count(0, state')
        BY <1>1, <1>2, <4>1, SMT
      <4>3. Zero' = Count(0, state') - Up(state')
        BY <4>2 DEF Zero
      <4> QED BY <1>2, <3>2, <4>1, <4>3
    <3> QED BY <3>1, <3>2
  <2>3. TwoCounts'
    BY <2>1, <2>2 DEF TwoCounts
  <2>4. FollowsPin'
    BY <1>1, <1>2, <2>1 DEF FollowsPin
  <2>5. Selected'
    BY <1>1, <1>6, <1>t, <2>1, <2>2 DEF Selected, selectVars
  <2> QED BY <2>3, <2>4, <2>5
<1> QED BY <1>1, <1>4, <1>5, <1>6 DEF KnobInv

LEMMA ArmStep == KnobInv /\ (Arm \/ ClearItFlag) => KnobInv'
<1> SUFFICES ASSUME KnobInv, Arm \/ ClearItFlag PROVE KnobInv'
  OBVIOUS
<1>t. KnobTypes /\ SampleTells /\ (prompt => TwoCounts /\ FollowsPin /\ Selected)
  BY DEF KnobInv
<1>1. /\ UNCHANGED <<astat, bstat, state, pos, now, last, knob, prompt, selectVars>>
      /\ hpc' \in {"armed", "end", "idle"}
  BY DEF Arm, ClearItFlag, turnVars
<1>2. KnobTypes'
  BY <1>1, <1>t DEF KnobTypes, selectVars, Arm, ClearItFlag
<1>3. SampleTells'
  BY <1>1, <1>t DEF SampleTells
<1>4. ASSUME prompt PROVE (TwoCounts /\ FollowsPin /\ Selected)'
  <2>1. hpc \in {"arm", "armed", "end"} /\ last.still
    BY <1>4, <1>t DEF Arm, ClearItFlag, TwoCounts
  <2>2. TwoCounts'
    BY <1>1, <1>4, <1>t, <2>1 DEF TwoCounts, Zero
  <2>3. Selected'
    BY <1>1, <1>4, <1>t DEF Selected, Zero, selectVars
  <2>4. Level(state) = A(knob) /\ astat = A(knob) /\ A(knob) \in {0, 1}
    BY <1>4, <1>t, <2>1, Levels DEF FollowsPin, KnobTypes
  <2>5. CASE Arm
    <3>1. hpc' = "armed" /\ edge' = IF Level(state) = 1 THEN "fall" ELSE "rise"
      BY <2>4, <2>5 DEF Arm
    <3>2. (edge' = "fall") = (Level(state) = 1)
      BY <3>1
    <3> QED BY <1>1, <2>1, <2>2, <2>3, <2>4, <3>1, <3>2 DEF FollowsPin
  <2>6. CASE ClearItFlag
    <3>1. (edge = "fall") = (Level(state) = 1) /\ irq' = FALSE /\ edge' = edge
      BY <1>4, <1>t, <2>1, <2>6 DEF ClearItFlag, FollowsPin
    <3> QED BY <1>1, <2>1, <2>2, <2>3, <2>4, <2>6, <3>1 DEF ClearItFlag, FollowsPin
  <2> QED BY <2>2, <2>3, <2>5, <2>6
<1> QED BY <1>1, <1>2, <1>3, <1>4 DEF KnobInv

\* The thread only reads the count, which for prompt interrupts is one of two.
LEMMA ThreadStep == KnobInv /\ (StartThread \/ Look \/ Direction \/ Keep) => KnobInv'
<1> SUFFICES ASSUME KnobInv, StartThread \/ Look \/ Direction \/ Keep PROVE KnobInv'
  OBVIOUS
<1>t. KnobTypes /\ SampleTells /\ (prompt => TwoCounts /\ FollowsPin /\ Selected)
  BY DEF KnobInv
<1>1. UNCHANGED <<hpc, astat, bstat, edge, state, pos, now, last, irq, knob, prompt>>
  BY DEF StartThread, Look, Direction, Keep, pinVars, handlerVars, turnVars
<1>2. new_mode' \in 0..2 /\ selections' \in Nat /\ left_last_pos' \in Int
      /\ kpc' \in {"start", "look", "direction", "keep"}
  <2>1. pos \in Int /\ left_last_pos \in Int /\ new_mode \in 0..2 /\ selections \in Nat
    BY <1>t DEF KnobTypes
  <2>2. (new_mode + 1) % 3 \in 0..2 /\ (new_mode + 2) % 3 \in 0..2 /\ selections + 1 \in Nat
    BY <2>1, SMT
  <2> QED BY <2>1, <2>2, Zenon DEF StartThread, Look, Direction, Keep
<1>3. KnobTypes' /\ SampleTells' /\ (prompt' => TwoCounts' /\ FollowsPin')
  BY <1>1, <1>2, <1>t DEF KnobTypes, SampleTells, TwoCounts, FollowsPin, Zero
<1>4. ASSUME prompt PROVE Selected'
  <2>1. /\ pos \in Int /\ Zero' = Zero /\ left_last_pos \in Int
        /\ last.still => Zero \in {-1, 1} /\ pos - Zero \in {0, 1}
        /\ ~last.still => pos = 0
    <3>1. pos \in Int /\ Zero' = Zero /\ left_last_pos \in Int
      BY <1>1, <1>t DEF KnobTypes, Zero
    <3>2. pos - Zero \in {0, 1}
      <4>1. Up(state) \in {0, 1}
        BY DEF Up
      <4> QED BY <3>1, <4>1, SMT DEF Zero
    <3> QED BY <1>4, <1>t, <3>1, <3>2 DEF TwoCounts
  <2>2. Selected
    BY <1>4, <1>t
  <2> HIDE DEF Zero
  <2>3. CASE StartThread
    <3>1. kpc' = "look" /\ selections' = 0 /\ left_last_pos' = pos /\ last' = last
      BY <1>1, <2>2, <2>3 DEF StartThread, Selected
    <3> QED BY <2>1, <3>1 DEF Selected
  <2>4. CASE Look
    <3>1. last.still /\ Zero = 1 /\ selections = 0
      <4>1. kpc = "look" /\ Distance(pos, left_last_pos) >= 2
        BY <2>4 DEF Look
      <4>2. CASE selections = 1 /\ last.still /\ Zero = 1 /\ left_last_pos \in {1, 2}
        BY <2>1, <4>1, <4>2, SMT DEF Distance
      <4>3. CASE last.still /\ left_last_pos - Zero \in {0, 1}
        BY <2>1, <4>1, <4>3, SMT DEF Distance
      <4>4. CASE selections = 0 /\ left_last_pos = 0
        BY <2>1, <4>1, <4>4, SMT DEF Distance
      <4> QED BY <2>2, <4>1, <4>2, <4>3, <4>4 DEF Selected
    <3> QED BY <1>1, <2>1, <2>4, <3>1 DEF Look, Selected
  <2>5. CASE Direction
    <3>1. last.still /\ Zero = 1 /\ selections = 0
      BY <2>2, <2>5 DEF Direction, Selected
    <3>2. selections' = 1
      BY <3>1, <2>5, SMT DEF Direction
    <3> QED BY <1>1, <2>1, <2>5, <3>1, <3>2 DEF Direction, Selected
  <2>6. CASE Keep
    <3>1. last.still /\ Zero = 1 /\ selections = 1
      BY <2>2, <2>6 DEF Keep, Selected
    <3>2. pos \in {1, 2}
      BY <2>1, <3>1, SMT
    <3> QED BY <1>1, <2>1, <2>6, <3>1, <3>2 DEF Keep, Selected
  <2> QED BY <2>3, <2>4, <2>5, <2>6
<1> QED BY <1>1, <1>3, <1>4 DEF KnobInv

\* Every step of the code, and every stutter, preserves the invariant.
LEMMA KnobInductive == KnobInv /\ [KnobNext]_knobVars => KnobInv'
<1> SUFFICES ASSUME KnobInv, [KnobNext]_knobVars PROVE KnobInv'
  OBVIOUS
<1>1. ASSUME NEW d \in {-1, 1}, Turn(d) PROVE KnobInv'
  BY <1>1, TurnStep
<1>2. CASE GPIOA_IRQHandler
  BY <1>2, ReadStep, CountStep, ArmStep DEF GPIOA_IRQHandler
<1>3. CASE UNCHANGED knobVars
  <2>1. UNCHANGED <<hpc, astat, bstat, edge, state, pos, now, last, irq, knob, prompt,
                    kpc, left_last_pos, new_mode, selections>>
    BY <1>3 DEF knobVars, handlerVars, turnVars, selectVars
  <2>2. KnobTypes' = KnobTypes /\ SampleTells' = SampleTells
    BY <2>1 DEF KnobTypes, SampleTells
  <2>3. TwoCounts' = TwoCounts /\ FollowsPin' = FollowsPin /\ Selected' = Selected
    BY <2>1 DEF TwoCounts, FollowsPin, Selected, Zero
  <2> QED BY <2>1, <2>2, <2>3 DEF KnobInv
<1> QED BY <1>1, <1>2, <1>3, ThreadStep DEF KnobNext

LEMMA KnobInvariance == KnobSpec => []KnobInv
BY KnobInitInv, KnobInductive, PTL DEF KnobSpec

\* Turned as far as one likes in any way, while no quarter turn comes before
\* the interrupt of the one before is over, the count keeps to four values:
\* clicks are not counted, though state_change says one count per click.
THEOREM PromptCountStands == KnobSpec => []CountStands
<1>1. KnobInv => CountStands
  <2> SUFFICES ASSUME KnobInv, prompt PROVE pos \in -1..2
    BY DEF CountStands
  <2>1. Up(state) \in {0, 1} /\ pos \in Int
    BY DEF KnobInv, KnobTypes, Up
  <2>2. CASE last.still
    <3>1. pos - Up(state) \in {-1, 1}
      BY <2>2 DEF KnobInv, TwoCounts, Zero
    <3> QED BY <2>1, <3>1, SMT
  <2>3. CASE ~last.still
    <3>1. pos = 0
      BY <2>3 DEF KnobInv, TwoCounts
    <3> QED BY <3>1, SMT
  <2> QED BY <2>2, <2>3
<1> QED BY <1>1, KnobInvariance, PTL

\* And the radio thread selects at most one flight mode by it in a power-on.
THEOREM PromptSelectsOnce == KnobSpec => []SelectsAtMostOnce
<1>1. KnobInv => SelectsAtMostOnce
  <2> SUFFICES ASSUME KnobInv, prompt PROVE selections <= 1
    BY DEF SelectsAtMostOnce
  <2>1. selections = 0 \/ selections = 1
    BY DEF KnobInv, KnobTypes, Selected
  <2> QED BY <2>1, SMT
<1> QED BY <1>1, KnobInvariance, PTL

\* However late interrupts are, and whatever edges they lose, a count goes the
\* way the knob was turned between two samples, unless the pins changed while
\* they were read or three quarters of a click or more lie between.
THEOREM CountGoesRightWay == KnobSpec => RightWay
<1>1. ASSUME KnobInv, [KnobNext]_knobVars, pos' # pos, last.still, now.still,
             Distance(now.at, last.at) <= 2
      PROVE  pos' - pos = now.at - last.at
  <2>1. state_change
    BY <1>1 DEF KnobNext, knobVars, Turn, GPIOA_IRQHandler, ReadA, ReadB, Arm, ClearItFlag,
                StartThread, Look, Direction, Keep, pinVars, handlerVars
  <2>2. /\ state = Pins(last.at) /\ 2 * astat + bstat = Pins(now.at)
        /\ last.at \in Int /\ now.at \in Int /\ pos \in Int
    BY <1>1, <2>1 DEF KnobInv, KnobTypes, SampleTells, state_change, Pins
  <2> DEFINE c == Count(Pins(last.at), Pins(now.at))
  <2>3. pos' = pos + c
    BY <2>1, <2>2 DEF state_change
  <2>4. c \in Int
    BY SMT DEF Count
  <2>5. c # 0
    BY <1>1, <2>2, <2>3, <2>4, SMT
  <2>6. c = now.at - last.at
    BY <1>1, <2>2, <2>5, CountFits
  <2> HIDE DEF c
  <2> QED BY <2>2, <2>3, <2>4, <2>6, SMT
<1>2. KnobInv /\ [KnobNext]_knobVars
         => [pos' # pos /\ last.still /\ now.still /\ Distance(now.at, last.at) <= 2
               => pos' - pos = now.at - last.at]_knobVars
  BY <1>1
<1> QED BY <1>2, KnobInvariance, PTL DEF KnobSpec, RightWay
=============================================================================
