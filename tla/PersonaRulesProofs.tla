-------------------------- MODULE PersonaRulesProofs --------------------------
(***************************************************************************)
(* Theorems about the two validators and what an applied persona looks     *)
(* like, for every persona there can be.                                   *)
(***************************************************************************)
EXTENDS PersonaRules, SequenceTheorems, TLAPS

(* What the stage of a persona says of the validators' verdicts.           *)
RulesInv ==
    /\ strict \in BOOLEAN /\ failClosed \in BOOLEAN
    /\ stage \in {"none", "invalid", "posted", "unreadable", "refused", "applied"}
    /\ stage = "none" => persona = NoPersona
    /\ stage # "none" => persona \in Personas
    /\ validated => ExtValid(persona, strict)
    /\ stage = "invalid" => ~ExtValid(persona, strict)
    /\ stage \in {"unreadable", "refused", "applied"}
         => (Parses(persona) <=> stage # "unreadable")
    /\ stage = "applied" => ProxyValid(persona, failClosed)
    /\ stage = "refused" => ~ProxyValid(persona, failClosed)

LEMMA RulesStep == RulesInv /\ [RulesNext]_rvars => RulesInv'
<1> SUFFICES ASSUME RulesInv, [RulesNext]_rvars PROVE RulesInv'
  OBVIOUS
<1>1. ASSUME NEW p \in Personas, SetPersona(p) PROVE RulesInv'
  BY <1>1 DEF SetPersona, RulesInv
<1>2. CASE PollActivates
  BY <1>2 DEF PollActivates, RulesInv
<1>3. CASE PostPersona
  BY <1>3 DEF PostPersona, RulesInv
<1>4. CASE ClearPersona
  BY <1>4 DEF ClearPersona, RulesInv
<1>5. CASE UNCHANGED rvars
  BY <1>5 DEF rvars, RulesInv
<1> QED BY <1>1, <1>2, <1>3, <1>4, <1>5 DEF RulesNext

LEMMA RulesAlways == RulesSpec => []RulesInv
<1>1. RulesInit => RulesInv
  BY DEF RulesInit, RulesInv
<1> QED BY <1>1, RulesStep, PTL DEF RulesSpec

-----------------------------------------------------------------------------
(* The tables of the two languages are the same.                           *)
LEMMA SameTables ==
    /\ \A g : AllowedTimezones(g) = ExtZones(g)
    /\ \A g : ExpectedLanguages(g) = ExtLanguages(g)
    /\ KnownResolutions = ExtResolutions
    /\ \A P, U : ValidatePlatform(P, U) = PlatformMatchesUserAgent(P, U)
<1>1. \A g : AllowedTimezones(g) = ExtZones(g)
  BY DEF AllowedTimezones, ExtZones
<1>2. \A g : ExpectedLanguages(g) = ExtLanguages(g)
  BY DEF ExpectedLanguages, ExtLanguages
<1>3. KnownResolutions = ExtResolutions
  BY DEF KnownResolutions, ExtResolutions
<1>4. \A P, U : ValidatePlatform(P, U) = PlatformMatchesUserAgent(P, U)
  BY DEF ValidatePlatform, PlatformMatchesUserAgent
<1> QED BY <1>1, <1>2, <1>3, <1>4

LEMMA FirstElement ==
    ASSUME NEW S, NEW s \in Seq(S), s # << >>
    PROVE  Head(s) \in S /\ Head(s) = s[1]
<1>1. Len(s) \in Nat \ {0}
  BY EmptySeq
<1>2. Head(SubSeq(s, 1, Len(s))) = s[1]
  BY <1>1, HeadTailOfSubSeq
<1> QED BY <1>1, HeadTailProperties

(* So are the languages, if the first entry names one.                     *)
LEMMA SameLanguage ==
    ASSUME NEW p \in PersonaSpace, Head(p.langs) # Blank, Head(Head(p.langs)) # ""
    PROVE  ProxyLanguage(p.langs) = PrimaryLanguage(p.langs)
<1> DEFINE first == Head(p.langs)
<1>1. /\ p.langs \in Seq(Seq(STRING)) /\ p.langs # << >>
  BY DEF PersonaSpace
<1>2. first \in Seq(STRING)
  BY <1>1, FirstElement
<1>3. Head(first) = first[1]
  BY <1>2, FirstElement DEF Blank
<1> QED BY <1>3 DEF ProxyLanguage, PrimaryLanguage, PrimaryLocale

(* Then the proxy finds no broken rule that the extension does not find.   *)
LEMMA SameRules ==
    ASSUME NEW p \in PersonaSpace, Head(p.langs) # Blank, Head(Head(p.langs)) # ""
    PROVE  ProxyBroken(p) = ExtBroken(p)
  BY SameTables, SameLanguage DEF ProxyBroken, ExtBroken

(* What the extension accepts in its strict mode the proxy never refuses   *)
(* by a rule, in either mode, unless the first entry of accept_lang names  *)
(* no language (StrictIsEnough; persona.ts:58-105, persona.rs:97-230).     *)
THEOREM StrictIsEnoughHolds == RulesSpec => []StrictIsEnough
<1>1. RulesInv => StrictIsEnough
  <2> SUFFICES ASSUME RulesInv, stage = "refused", validated, strict,
                      Head(persona.langs) # Blank, Head(Head(persona.langs)) # ""
               PROVE  FALSE
    BY DEF StrictIsEnough
  <2>1. persona \in PersonaSpace /\ ~ProxyValid(persona, failClosed) /\ ExtValid(persona, TRUE)
    BY PersonasAssumption DEF RulesInv
  <2>2. ProxyBroken(persona) = ExtBroken(persona)
    BY <2>1, SameRules
  <2>3. Hard \subseteq Rules
    BY DEF Hard, Rules
  <2> QED BY <2>1, <2>2, <2>3 DEF ProxyValid, ExtValid
<1> QED BY <1>1, RulesAlways, PTL

(* The platform hint, the user agent and the renderer of an applied        *)
(* persona belong to one operating system, for every set of substrings     *)
(* that a platform and a user agent can contain (OneMachine).              *)
THEOREM OneMachineHolds == RulesSpec => []OneMachine
<1>1. RulesInv => OneMachine
  <2> SUFFICES ASSUME RulesInv, stage = "applied" PROVE
        LET hint == ClientHintPlatform(persona.platform)
        IN  /\ ProxyHint(persona.platform) = hint
            /\ WebglRenderer(persona.platform) = RendererOf[hint]
            /\ hint # "Unknown" /\ ("linux" \in persona.platform => hint = "Linux")
                   => AgentsOf[hint] \cap persona.ua # {}
    BY DEF OneMachine
  <2> DEFINE P == persona.platform
             U == persona.ua
  <2>1. persona \in PersonaSpace /\ ProxyValid(persona, failClosed)
    BY PersonasAssumption DEF RulesInv
  <2>2. P \subseteq PlatformTokens /\ ("darwin" \in P => "win" \in P)
    BY <2>1 DEF PersonaSpace
  <2>3. ValidatePlatform(P, U)
    BY <2>1 DEF ProxyValid, ProxyBroken, Hard, Rules
  <2>4. ProxyHint(P) = ClientHintPlatform(P)
    BY DEF ProxyHint, ClientHintPlatform
  <2>5. WebglRenderer(P) = RendererOf[ClientHintPlatform(P)]
    BY <2>2 DEF WebglRenderer, RendererOf, ClientHintPlatform
  <2>6. ASSUME ClientHintPlatform(P) # "Unknown",
               "linux" \in P => ClientHintPlatform(P) = "Linux"
        PROVE  AgentsOf[ClientHintPlatform(P)] \cap U # {}
    BY <2>2, <2>3, <2>6 DEF ValidatePlatform, ClientHintPlatform, AgentsOf
  <2> QED BY <2>4, <2>5, <2>6
<1> QED BY <1>1, RulesAlways, PTL

-----------------------------------------------------------------------------
(* The offset the switch knows is that of the zone in July.                *)
LEMMA OffsetsFit == \A z \in DOMAIN KnownOffsets : KnownOffsets[z] = JulyOffset(z)
  BY DEF KnownOffsets, JulyOffset, WinterTime, NoSummerTime

(* Without its empty entries, a list whose first entry is not empty starts *)
(* with that one.                                                          *)
LEMMA FirstStays ==
    ASSUME NEW langs \in Seq(Seq(STRING)), langs # << >>, Head(langs) # Blank
    PROVE  FirstLanguage(langs) = Head(langs)
<1> DEFINE named == {i \in DOMAIN langs : langs[i] # Blank}
           first == CHOOSE i \in named : \A j \in named : i <= j
<1>1. 1 \in named /\ \A j \in named : j \in Nat /\ 1 <= j
  OBVIOUS
<1>2. first \in named /\ first <= 1
  BY <1>1
<1>3. first = 1
  BY <1>1, <1>2
<1> QED BY <1>1, <1>3 DEF FirstLanguage

(* The zone of an applied persona belongs to its region, its offset is     *)
(* that of the zone in July, and its languages start with the one that     *)
(* navigator.language names (OnePlace; injected.ts:152-196).               *)
THEOREM OnePlaceHolds == RulesSpec => []OnePlace
<1>1. RulesInv => OnePlace
  <2> SUFFICES ASSUME RulesInv, stage = "applied", ExtZones(persona.geo) # {}
               PROVE  /\ persona.timezone \in ExtZones(persona.geo)
                      /\ persona.offset = NoOffset /\ persona.timezone \in DOMAIN KnownOffsets
                             => TimezoneOffset(persona) = JulyOffset(persona.timezone)
                      /\ Head(persona.langs) # Blank
                             => PrimaryLocale(persona.langs) = FirstLanguage(persona.langs)
    BY DEF OnePlace
  <2>1. persona \in PersonaSpace /\ ProxyValid(persona, failClosed)
    BY PersonasAssumption DEF RulesInv
  <2>2. persona.timezone \in AllowedTimezones(persona.geo)
    BY <2>1, SameTables DEF ProxyValid, ProxyBroken, Hard, Rules
  <2>3. persona.offset = NoOffset /\ persona.timezone \in DOMAIN KnownOffsets
          => TimezoneOffset(persona) = JulyOffset(persona.timezone)
    BY OffsetsFit DEF TimezoneOffset
  <2>4. ASSUME Head(persona.langs) # Blank
        PROVE  PrimaryLocale(persona.langs) = FirstLanguage(persona.langs)
    BY <2>1, <2>4, FirstStays DEF PrimaryLocale, PersonaSpace
  <2> QED BY <2>2, <2>3, <2>4, SameTables
<1> QED BY <1>1, RulesAlways, PTL

-----------------------------------------------------------------------------
(* The personas the extension is shipped with break no rule, of either     *)
(* validator, and the proxy can read them.                                 *)
LEMMA DefaultsFit ==
    ASSUME NEW p \in DefaultPersonas
    PROVE  /\ ExtBroken(p) = {} /\ ProxyBroken(p) = {} /\ Parses(p)
           /\ TimezoneOffset(p) = JulyOffset(p.timezone)
<1>1. CASE p = nl_chrome_linux
  <2> USE <1>1 DEF nl_chrome_linux
  <2>1. p.timezone \in ExtZones(p.geo)
    BY DEF ExtZones
  <2>2. Head(p.langs) = <<"nl", "NL">> /\ p.langs # <<Blank>>
    BY DEF Blank
  <2>3. PrimaryLanguage(p.langs) = "nl" /\ ProxyLanguage(p.langs) = "nl"
    BY <2>2 DEF PrimaryLanguage, PrimaryLocale, ProxyLanguage, Blank
  <2>4. PlatformMatchesUserAgent(p.platform, p.ua)
    BY DEF PlatformMatchesUserAgent
  <2>5. InRange(p) /\ <<p.width, p.height>> \in ExtResolutions
    BY DEF InRange, ExtResolutions
  <2>6. ~Missing(p)
    BY <2>2 DEF Missing
  <2>7. Parses(p) /\ TimezoneOffset(p) = p.offset
    BY NoOffsetAssumption DEF Parses, TimezoneOffset
  <2>8. JulyOffset(p.timezone) = p.offset
    <3>1. p.timezone \notin NoSummerTime
      BY DEF NoSummerTime
    <3>2. WinterTime(p.timezone) = 60
      BY DEF WinterTime
    <3> QED BY <3>1, <3>2 DEF JulyOffset
  <2> QED BY <2>1, <2>3, <2>4, <2>5, <2>6, <2>7, <2>8, SameTables DEF ExtBroken,
     ProxyBroken, ExtLanguages
<1>2. CASE p = us_chrome_windows
  <2> USE <1>2 DEF us_chrome_windows
  <2>1. p.timezone \in ExtZones(p.geo)
    BY DEF ExtZones
  <2>2. Head(p.langs) = <<"en", "US">> /\ p.langs # <<Blank>>
    BY DEF Blank
  <2>3. PrimaryLanguage(p.langs) = "en" /\ ProxyLanguage(p.langs) = "en"
    BY <2>2 DEF PrimaryLanguage, PrimaryLocale, ProxyLanguage, Blank
  <2>4. PlatformMatchesUserAgent(p.platform, p.ua)
    BY DEF PlatformMatchesUserAgent
  <2>5. InRange(p) /\ <<p.width, p.height>> \in ExtResolutions
    BY DEF InRange, ExtResolutions
  <2>6. ~Missing(p)
    BY <2>2 DEF Missing
  <2>7. Parses(p) /\ TimezoneOffset(p) = p.offset
    BY NoOffsetAssumption DEF Parses, TimezoneOffset
  <2>8. JulyOffset(p.timezone) = p.offset
    <3>1. p.timezone \notin NoSummerTime
      BY DEF NoSummerTime
    <3>2. WinterTime(p.timezone) = -300
      BY DEF WinterTime
    <3> QED BY <3>1, <3>2 DEF JulyOffset
  <2> QED BY <2>1, <2>3, <2>4, <2>5, <2>6, <2>7, <2>8, SameTables DEF ExtBroken,
     ProxyBroken, ExtLanguages
<1>3. CASE p = de_firefox_windows
  <2> USE <1>3 DEF de_firefox_windows
  <2>1. p.timezone \in ExtZones(p.geo)
    BY DEF ExtZones
  <2>2. Head(p.langs) = <<"de", "DE">> /\ p.langs # <<Blank>>
    BY DEF Blank
  <2>3. PrimaryLanguage(p.langs) = "de" /\ ProxyLanguage(p.langs) = "de"
    BY <2>2 DEF PrimaryLanguage, PrimaryLocale, ProxyLanguage, Blank
  <2>4. PlatformMatchesUserAgent(p.platform, p.ua)
    BY DEF PlatformMatchesUserAgent
  <2>5. InRange(p) /\ <<p.width, p.height>> \in ExtResolutions
    BY DEF InRange, ExtResolutions
  <2>6. ~Missing(p)
    BY <2>2 DEF Missing
  <2>7. Parses(p) /\ TimezoneOffset(p) = p.offset
    BY NoOffsetAssumption DEF Parses, TimezoneOffset
  <2>8. JulyOffset(p.timezone) = p.offset
    <3>1. p.timezone \notin NoSummerTime
      BY DEF NoSummerTime
    <3>2. WinterTime(p.timezone) = 60
      BY DEF WinterTime
    <3> QED BY <3>1, <3>2 DEF JulyOffset
  <2> QED BY <2>1, <2>3, <2>4, <2>5, <2>6, <2>7, <2>8, SameTables DEF ExtBroken,
     ProxyBroken, ExtLanguages
<1> QED BY <1>1, <1>2, <1>3 DEF DefaultPersonas

(* Neither validator, in either mode, rejects a persona that the extension *)
(* is shipped with (DefaultsPass; defaultPersonas.ts).                     *)
THEOREM DefaultsPassHolds == RulesSpec => []DefaultsPass
<1>1. RulesInv => DefaultsPass
  <2> SUFFICES ASSUME RulesInv, persona \in DefaultPersonas
               PROVE  /\ stage \in {"posted", "applied"}
                      /\ TimezoneOffset(persona) = JulyOffset(persona.timezone)
    BY DEF DefaultsPass
  <2>1. ExtValid(persona, strict) /\ ProxyValid(persona, failClosed) /\ Parses(persona)
    BY DefaultsFit DEF ExtValid, ProxyValid
  <2>2. NoPersona \notin DefaultPersonas
    BY PersonasAssumption, NoPersonaAssumption
  <2> QED BY <2>1, <2>2, DefaultsFit DEF RulesInv
<1> QED BY <1>1, RulesAlways, PTL
=============================================================================
