---------------------------- MODULE PersonaRules ----------------------------
(***************************************************************************)
(* What a persona has to pass before it is applied, and what it then looks *)
(* like: the validator of the extension (extension/src/shared/persona.ts), *)
(* the one of the proxy (proxy/src/persona.rs), and the values that header *)
(* rule, proxy and page derive from one persona, each by a table of its    *)
(* own.                                                                    *)
(*                                                                         *)
(* Strings are what the code looks for in them: a platform or user agent   *)
(* is the set of tokens its lower case contains, accept_lang the sequence  *)
(* of its entries without their weights, an entry the sequence of its      *)
(* subtags.  "fits" says that the other numbers of a persona are integers  *)
(* of the width the proxy reads them in.                                   *)
(***************************************************************************)
EXTENDS Integers, Sequences

CONSTANTS
    Personas,     \* the personas considered
    NoPersona,    \* none chosen
    NoOffset,     \* a persona without timezone_offset_minutes
    RealOffset    \* the offset of the zone the browser is really in

PlatformTokens == {"linux", "win", "mac", "darwin", "android"}
AgentTokens == {"linux", "x11", "windows", "macintosh", "mac os", "android"}

(* What a persona can be: "darwin" contains "win", and splitting a string  *)
(* leaves at least one entry.                                              *)
PersonaSpace ==
    [platform : {P \in SUBSET PlatformTokens : "darwin" \in P => "win" \in P},
     ua : SUBSET AgentTokens, geo : STRING, timezone : STRING,
     langs : Seq(Seq(STRING)) \ {<< >>}, width : Int, height : Int,
     offset : Int \cup {NoOffset}, fits : BOOLEAN]

(* The personas the extension is shipped with.                             *)
nl_chrome_linux ==
    [platform |-> {"linux"}, ua |-> {"linux", "x11"}, geo |-> "NL",
     timezone |-> "Europe/Amsterdam", langs |-> <<<<"nl", "NL">>, <<"nl">>, <<"en">>>>,
     width |-> 1920, height |-> 1080, offset |-> -120, fits |-> TRUE]

us_chrome_windows ==
    [platform |-> {"win"}, ua |-> {"windows"}, geo |-> "US",
     timezone |-> "America/New_York", langs |-> <<<<"en", "US">>, <<"en">>>>,
     width |-> 1366, height |-> 768, offset |-> 240, fits |-> TRUE]

de_firefox_windows ==
    [platform |-> {"win"}, ua |-> {"windows"}, geo |-> "DE",
     timezone |-> "Europe/Berlin", langs |-> <<<<"de", "DE">>, <<"de">>, <<"en">>>>,
     width |-> 1536, height |-> 864, offset |-> -120, fits |-> TRUE]

DefaultPersonas == {nl_chrome_linux, us_chrome_windows, de_firefox_windows}

ASSUME PersonasAssumption ==
    DefaultPersonas \subseteq Personas /\ Personas \subseteq PersonaSpace

ASSUME NoPersonaAssumption == NoPersona \notin Personas

ASSUME NoOffsetAssumption == NoOffset \notin Int

Rules == {"required", "CR-01", "CR-02", "CR-03", "CR-04"}
Hard == {"required", "CR-01", "CR-03"}  \* errors whatever the strictness

Blank == << >>

-----------------------------------------------------------------------------
(* extension/src/shared/persona.ts                                         *)

ExtZones(geo) ==
    CASE geo = "NL" -> {"Europe/Amsterdam"}
      [] geo = "DE" -> {"Europe/Berlin"}
      [] geo = "FR" -> {"Europe/Paris"}
      [] geo = "ES" -> {"Europe/Madrid"}
      [] geo = "IT" -> {"Europe/Rome"}
      [] geo \in {"GB", "UK"} -> {"Europe/London"}
      [] geo = "US" -> {"America/New_York", "America/Chicago", "America/Denver",
                        "America/Phoenix", "America/Los_Angeles", "America/Anchorage",
                        "Pacific/Honolulu"}
      [] geo = "CA" -> {"America/Toronto", "America/Vancouver", "America/Edmonton",
                        "America/Halifax"}
      [] geo = "JP" -> {"Asia/Tokyo"}
      [] geo = "IN" -> {"Asia/Kolkata"}
      [] geo = "BR" -> {"America/Sao_Paulo"}
      [] geo = "AU" -> {"Australia/Sydney", "Australia/Melbourne", "Australia/Perth",
                        "Australia/Brisbane"}
      [] OTHER -> {}

ExtLanguages(geo) ==
    CASE geo = "NL" -> {"nl"}
      [] geo = "DE" -> {"de"}
      [] geo = "FR" -> {"fr"}
      [] geo = "ES" -> {"es"}
      [] geo = "IT" -> {"it"}
      [] geo \in {"GB", "UK", "US", "CA", "AU"} -> {"en"}
      [] geo = "JP" -> {"ja"}
      [] geo = "IN" -> {"hi", "en"}
      [] geo = "BR" -> {"pt"}
      [] OTHER -> {}

\* Mutant: a table without the resolution of a default persona.
ExtResolutionsButOne == {<<1366, 768>>, <<1920, 1080>>}

ExtResolutions ==
    {<<1024, 768>>, <<1280, 720>>, <<1280, 800>>, <<1366, 768>>, <<1440, 900>>,
     <<1536, 864>>, <<1600, 900>>, <<1680, 1050>>, <<1920, 1080>>, <<1920, 1200>>,
     <<2560, 1440>>, <<3840, 2160>>}

PrimaryLocale(langs) ==
    IF Head(langs) = Blank THEN <<"en", "US">> ELSE Head(langs)

PrimaryLanguage(langs) ==
    LET language == Head(PrimaryLocale(langs))
    IN  IF language = "" THEN "en" ELSE language

(* A user agent with none of the tokens stands for the empty one; another  *)
(* text without any of them would pass here, and is left out.              *)
Missing(p) ==
    \/ p.ua = {} \/ p.langs = <<Blank>> \/ p.timezone = "" \/ p.geo = ""
    \/ p.width = 0 \/ p.height = 0

PlatformMatchesUserAgent(platform, ua) ==
    IF "linux" \in platform THEN ua \cap {"linux", "x11"} # {}
    ELSE IF "win" \in platform THEN "windows" \in ua
    ELSE IF platform \cap {"mac", "darwin"} # {}
         THEN ua \cap {"macintosh", "mac os"} # {}
    ELSE "android" \in platform => "android" \in ua

InRange(p) ==
    /\ p.width \in 800 .. 8000
    /\ p.height \in 600 .. 5000

(* The rules a persona breaks.  What a rule cannot verify only warns.      *)
ExtBroken(p) ==
    {r \in Rules :
        \/ r = "required" /\ Missing(p)
        \/ r = "CR-01" /\ ExtZones(p.geo) # {}
                       /\ p.timezone \notin ExtZones(p.geo)
        \/ r = "CR-02" /\ ExtLanguages(p.geo) # {}
                       /\ PrimaryLanguage(p.langs) \notin ExtLanguages(p.geo)
        \/ r = "CR-03" /\ ~PlatformMatchesUserAgent(p.platform, p.ua)
        \/ r = "CR-04" /\ (InRange(p) => <<p.width, p.height>> \notin ExtResolutions)}

ExtValid(p, strict) == ExtBroken(p) \cap (IF strict THEN Rules ELSE Hard) = {}

-----------------------------------------------------------------------------
(* proxy/src/persona.rs, proxy/src/headers.rs                              *)

AllowedTimezones(geo) ==
    CASE geo = "NL" -> {"Europe/Amsterdam"}
      [] geo = "DE" -> {"Europe/Berlin"}
      [] geo = "FR" -> {"Europe/Paris"}
      [] geo = "ES" -> {"Europe/Madrid"}
      [] geo = "IT" -> {"Europe/Rome"}
      [] geo \in {"GB", "UK"} -> {"Europe/London"}
      [] geo = "US" -> {"America/New_York", "America/Chicago", "America/Denver",
                        "America/Phoenix", "America/Los_Angeles", "America/Anchorage",
                        "Pacific/Honolulu"}
      [] geo = "CA" -> {"America/Toronto", "America/Vancouver", "America/Edmonton",
                        "America/Halifax"}
      [] geo = "JP" -> {"Asia/Tokyo"}
      [] geo = "IN" -> {"Asia/Kolkata"}
      [] geo = "BR" -> {"America/Sao_Paulo"}
      [] geo = "AU" -> {"Australia/Sydney", "Australia/Melbourne", "Australia/Perth",
                        "Australia/Brisbane"}
      [] OTHER -> {}

ExpectedLanguages(geo) ==
    CASE geo = "NL" -> {"nl"}
      [] geo = "DE" -> {"de"}
      [] geo = "FR" -> {"fr"}
      [] geo = "ES" -> {"es"}
      [] geo = "IT" -> {"it"}
      [] geo \in {"GB", "UK", "US", "CA", "AU"} -> {"en"}
      [] geo = "JP" -> {"ja"}
      [] geo = "IN" -> {"hi", "en"}
      [] geo = "BR" -> {"pt"}
      [] OTHER -> {}

\* Mutant: a resolution is missing from the table of the proxy.
KnownResolutionsButOne == ExtResolutions \ {<<2560, 1440>>}

KnownResolutions ==
    {<<1024, 768>>, <<1280, 720>>, <<1280, 800>>, <<1366, 768>>, <<1440, 900>>,
     <<1536, 864>>, <<1600, 900>>, <<1680, 1050>>, <<1920, 1080>>, <<1920, 1200>>,
     <<2560, 1440>>, <<3840, 2160>>}

(* An empty first entry stays empty here.                                  *)
ProxyLanguage(langs) == IF Head(langs) = Blank THEN "" ELSE Head(langs)[1]

\* Mutant: any Linux platform goes with any user agent.
ValidatePlatformLinuxAnyway(platform, ua) ==
    "linux" \in platform \/ PlatformMatchesUserAgent(platform, ua)

ValidatePlatform(platform, ua) ==
    IF "linux" \in platform THEN ua \cap {"linux", "x11"} # {}
    ELSE IF "win" \in platform THEN "windows" \in ua
    ELSE IF platform \cap {"mac", "darwin"} # {}
         THEN ua \cap {"macintosh", "mac os"} # {}
    ELSE "android" \in platform => "android" \in ua

ProxyBroken(p) ==
    {r \in Rules :
        \/ r = "required" /\ Missing(p)
        \/ r = "CR-01" /\ AllowedTimezones(p.geo) # {}
                       /\ p.timezone \notin AllowedTimezones(p.geo)
        \/ r = "CR-02" /\ ExpectedLanguages(p.geo) # {}
                       /\ ProxyLanguage(p.langs) \notin ExpectedLanguages(p.geo)
        \/ r = "CR-03" /\ ~ValidatePlatform(p.platform, p.ua)
        \/ r = "CR-04" /\ (InRange(p) => <<p.width, p.height>> \notin KnownResolutions)}

ProxyValid(p, strict) == ProxyBroken(p) \cap (IF strict THEN Rules ELSE Hard) = {}

(* What serde reads: unsigned sizes, the other numbers in their widths.    *)
Parses(p) == p.fits /\ p.width >= 0 /\ p.height >= 0

(* The hint the proxy puts in a request that already carries one.          *)
ProxyHint(platform) ==
    IF "win" \in platform THEN "Windows"
    ELSE IF platform \cap {"mac", "darwin"} # {} THEN "macOS"
    ELSE IF "android" \in platform THEN "Android"
    ELSE IF "linux" \in platform THEN "Linux" ELSE "Unknown"

-----------------------------------------------------------------------------
(* What header rule and page make of a persona.                            *)

ClientHintPlatform(platform) ==
    IF "win" \in platform THEN "Windows"
    ELSE IF platform \cap {"mac", "darwin"} # {} THEN "macOS"
    ELSE IF "android" \in platform THEN "Android"
    ELSE IF "linux" \in platform THEN "Linux" ELSE "Unknown"

WebglRenderer(platform) ==
    IF "win" \in platform THEN "Direct3D"
    ELSE IF "mac" \in platform THEN "Apple" ELSE "Mesa"

(* The first of navigator.languages, empty entries removed.                *)
FirstLanguage(langs) ==
    LET named == {i \in DOMAIN langs : langs[i] # Blank}
    IN  IF named = {} THEN PrimaryLocale(langs)
        ELSE langs[CHOOSE i \in named : \A j \in named : i <= j]

(* The zones a switch knows; the others fall through to the real offset.   *)
KnownOffsets ==
    [z \in {"Europe/Amsterdam", "Europe/Berlin", "Europe/Paris", "Europe/Madrid",
            "Europe/Rome", "Europe/London", "America/New_York", "America/Toronto",
            "America/Chicago", "America/Denver", "America/Los_Angeles",
            "America/Vancouver", "Pacific/Honolulu", "Asia/Tokyo", "Asia/Kolkata",
            "Australia/Sydney", "Australia/Melbourne"} |->
        CASE z = "Europe/London"                               -> -60
          [] z \in {"America/New_York", "America/Toronto"}     -> 240
          [] z = "America/Chicago"                             -> 300
          [] z = "America/Denver"                              -> 360
          [] z \in {"America/Los_Angeles", "America/Vancouver"} -> 420
          [] z = "Pacific/Honolulu"                            -> 600
          [] z = "Asia/Tokyo"                                  -> -540
          [] z = "Asia/Kolkata"                                -> -330
          [] z \in {"Australia/Sydney", "Australia/Melbourne"} -> -600
          [] OTHER                                             -> -120]

\* Mutant: minutes east of Greenwich instead of west.
TimezoneOffsetEast(p) ==
    IF p.offset # NoOffset THEN p.offset
    ELSE IF p.timezone \in DOMAIN KnownOffsets THEN -KnownOffsets[p.timezone]
    ELSE RealOffset

TimezoneOffset(p) ==
    IF p.offset # NoOffset THEN p.offset
    ELSE IF p.timezone \in DOMAIN KnownOffsets THEN KnownOffsets[p.timezone]
    ELSE RealOffset

-----------------------------------------------------------------------------
(* The way of one persona: chosen in the popup, validated, posted, applied.*)

VARIABLES
    persona,        \* the desired persona
    strict,         \* settings.coherenceStrict of the extension
    failClosed,     \* coherence_strict of the proxy
    validated,      \* the extension validated it, and found it valid
    stage           \* how far it is

rvars == <<persona, strict, failClosed, validated, stage>>

RulesInit ==
    /\ persona = NoPersona
    /\ strict \in BOOLEAN
    /\ failClosed \in BOOLEAN
    /\ validated = FALSE
    /\ stage = "none"

(* setPersona stores the desired persona, then validates it.               *)
SetPersona(p) ==
    /\ stage = "none"
    /\ persona' = p
    /\ validated' = ExtValid(p, strict)
    /\ stage' = IF ExtValid(p, strict) THEN "posted" ELSE "invalid"
    /\ UNCHANGED <<strict, failClosed>>

(* The poll activates what is desired without validating it again.         *)
PollActivates ==
    /\ stage = "invalid"
    /\ stage' = "posted"
    /\ UNCHANGED <<persona, strict, failClosed, validated>>

(* The answers 400, 422 and 200 to POST /persona.                          *)
PostPersona ==
    /\ stage = "posted"
    /\ stage' = IF ~Parses(persona) THEN "unreadable"
                ELSE IF ProxyValid(persona, failClosed) THEN "applied"
                ELSE "refused"
    /\ UNCHANGED <<persona, strict, failClosed, validated>>

ClearPersona ==
    /\ stage # "none"
    /\ persona' = NoPersona
    /\ validated' = FALSE
    /\ stage' = "none"
    /\ UNCHANGED <<strict, failClosed>>

RulesNext ==
    \/ \E p \in Personas : SetPersona(p)
    \/ PollActivates
    \/ PostPersona
    \/ ClearPersona

RulesSpec == RulesInit /\ [][RulesNext]_rvars

-----------------------------------------------------------------------------
(* Two validators, written twice: what the extension accepts in its strict *)
(* mode the proxy never refuses by a rule, whichever mode it is in.  An    *)
(* accept_lang whose first entry names no language is the one exception    *)
(* (the extension falls back to English, the proxy to nothing).            *)
StrictIsEnough ==
    stage = "refused" /\ validated /\ strict =>
        Head(persona.langs) = Blank \/ Head(Head(persona.langs)) = ""

AgentsOf ==
    [Windows |-> {"windows"}, macOS |-> {"macintosh", "mac os"},
     Android |-> {"android"}, Linux |-> {"linux", "x11"}]

RendererOf ==
    [Windows |-> "Direct3D", macOS |-> "Apple", Android |-> "Mesa",
     Linux |-> "Mesa", Unknown |-> "Mesa"]

(* One persona, one machine: the platform hint that header rule and proxy  *)
(* derive, the user agent and the WebGL renderer of an applied persona     *)
(* belong to one operating system, although each table asks for the        *)
(* substrings in an order of its own.  The validators ask for "linux"      *)
(* first and the hints last: a platform that names another system besides  *)
(* is the one exception.                                                   *)
OneMachine ==
    stage = "applied" =>
        LET hint == ClientHintPlatform(persona.platform)
        IN  /\ ProxyHint(persona.platform) = hint
            /\ WebglRenderer(persona.platform) = RendererOf[hint]
            /\ hint # "Unknown" /\ ("linux" \in persona.platform => hint = "Linux")
                   => AgentsOf[hint] \cap persona.ua # {}

(* The zones the switch knows, in minutes east of Greenwich in winter, and *)
(* those of them with summer time in July.                                 *)
WinterTime(zone) ==
    CASE zone = "Europe/London"                            -> 0
      [] zone \in {"America/New_York", "America/Toronto"}  -> -300
      [] zone = "America/Chicago"                          -> -360
      [] zone = "America/Denver"                           -> -420
      [] zone \in {"America/Los_Angeles", "America/Vancouver"} -> -480
      [] zone = "Pacific/Honolulu"                         -> -600
      [] zone = "Asia/Tokyo"                               -> 540
      [] zone = "Asia/Kolkata"                             -> 330
      [] zone \in {"Australia/Sydney", "Australia/Melbourne"} -> 600
      [] OTHER                                             -> 60

NoSummerTime ==
    {"Pacific/Honolulu", "Asia/Tokyo", "Asia/Kolkata", "Australia/Sydney",
     "Australia/Melbourne"}

JulyOffset(zone) ==
    -(IF zone \in NoSummerTime THEN WinterTime(zone) ELSE WinterTime(zone) + 60)

(* What Date and the Accept-Language of an applied persona say fits its    *)
(* region: the offset is that of its zone in July (in January only for     *)
(* zones without summer time) unless the persona carries one of its own or *)
(* its zone is missing from the switch, and navigator.language is the      *)
(* first of navigator.languages unless the first entry is empty.           *)
OnePlace ==
    stage = "applied" /\ ExtZones(persona.geo) # {} =>
        /\ persona.timezone \in ExtZones(persona.geo)
        /\ persona.offset = NoOffset /\ persona.timezone \in DOMAIN KnownOffsets
               => TimezoneOffset(persona) = JulyOffset(persona.timezone)
        /\ Head(persona.langs) # Blank
               => PrimaryLocale(persona.langs) = FirstLanguage(persona.langs)

(* The personas the extension is shipped with are never rejected, by       *)
(* either validator in either mode, and carry the offset of their zone.    *)
DefaultsPass ==
    persona \in DefaultPersonas =>
        /\ stage \in {"posted", "applied"}
        /\ TimezoneOffset(persona) = JulyOffset(persona.timezone)
=============================================================================
