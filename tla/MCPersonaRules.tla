--------------------------- MODULE MCPersonaRules ---------------------------
(***************************************************************************)
(* PersonaRules for TLC: every platform with every user agent, every place *)
(* with every kind of accept_lang, and screens in and out of range.        *)
(***************************************************************************)
EXTENDS PersonaRules

Dutch == <<<<"nl", "NL">>, <<"nl">>>>

Langs == {Dutch, <<<<"en", "US">>>>, <<<<"hi">>>>, <<<<"", "NL">>>>,
          <<Blank, <<"en">>>>, <<Blank>>, <<Blank, Blank>>}

Machines ==
    [platform : {P \in SUBSET PlatformTokens : "darwin" \in P => "win" \in P},
     ua : SUBSET AgentTokens, geo : {"NL"}, timezone : {"Europe/Amsterdam"},
     langs : {Dutch, <<Blank, <<"en">>>>}, width : {1366}, height : {768},
     offset : {NoOffset}, fits : BOOLEAN]

Regions == {"NL", "DE", "FR", "ES", "IT", "GB", "UK", "US", "CA", "JP", "IN", "BR", "AU"}

Zones == UNION {ExtZones(g) : g \in Regions} \cup DOMAIN KnownOffsets

Places ==
    [platform : {{"linux"}}, ua : {{"linux", "x11"}},
     geo : Regions \cup {"ZZ", ""}, timezone : Zones \cup {""},
     langs : Langs, width : {1536}, height : {864},
     offset : {NoOffset, -120}, fits : {TRUE}]

Screens ==
    [platform : {{"win"}}, ua : {{"windows"}}, geo : {"NL"},
     timezone : {"Europe/Amsterdam"}, langs : {Dutch},
     width : {-5, 0, 640, 1366, 1536, 2560, 8001}, height : {480, 768, 864, 1440, 5001},
     offset : {NoOffset}, fits : {TRUE}]

Considered == DefaultPersonas \cup Machines \cup Places \cup Screens
=============================================================================
