------------------------- MODULE CanvasNoiseProofs --------------------------
(***************************************************************************)
(* Theorems about the injected script, for any targets, any personas and   *)
(* seeds, any width of the canvas and however often a page tampers.        *)
(***************************************************************************)
EXTENDS CanvasNoise, FiniteSetTheorems, TLAPS

(* What the script saved of an unfrozen target is what the page had there  *)
(* before, and where it saved nothing, that value is in place.             *)
SavedIsOwn ==
    \A t \in Targets \ sealed :
        IF saved[t] = None THEN Original(t, value[t])
        ELSE /\ Original(t, saved[t])
             /\ \/ value[t] = activePersona
                \/ t \in overlaid /\ value[t] = own[t]

(* Without a persona nothing is saved, with one all that can be.           *)
SavedFits ==
    \A t \in Targets :
        /\ activePersona = None => saved[t] = None
        /\ activePersona # None /\ t \notin missing => saved[t] # None

ScriptInv == ScriptTypeOK /\ SavedIsOwn /\ SavedFits

LEMMA PersonasApart == None \notin Personas /\ None \notin Values
  BY SentinelAssumption DEF Values

LEMMA ScriptInitInv == ScriptInit => ScriptInv
  BY DEF ScriptInit, ScriptInv, ScriptTypeOK, SavedIsOwn, SavedFits, Values, Original

(* To undo what was saved gives the page back what it had before.          *)
LEMMA UndoOwn ==
    ASSUME ScriptInv
    PROVE  /\ Undo(value, saved) \in [Targets -> Values]
           /\ \A t \in Targets \ sealed : Original(t, Undo(value, saved)[t])
<1>1. \A t \in Targets : Undo(value, saved)[t] \in Values
  BY DEF Undo, ScriptInv, ScriptTypeOK
<1>2. \A t \in Targets \ sealed : Original(t, Undo(value, saved)[t])
  BY DEF Undo, ScriptInv, SavedIsOwn
<1> QED BY <1>1, <1>2 DEF Undo

LEMMA ApplyKeeps ==
    ASSUME ScriptInv, NEW p \in Personas, ApplyPersona(p)
    PROVE  ScriptInv'
<1> DEFINE clean == Undo(value, saved)
           v == SafeDefine(clean, p, Reached)
           s == Remember(clean, Reached)
<1>0. ScriptTypeOK /\ Reached \subseteq Targets
  BY DEF ScriptInv, Reached
<1>1. clean \in [Targets -> Values] /\ \A t \in Targets \ sealed : Original(t, clean[t])
  BY UndoOwn
<1>2. UNCHANGED <<sealed, missing, own, overlaid, tampers>>
  BY DEF ApplyPersona, history
<1> HIDE DEF clean
<1>3. v \in [Targets -> Values] /\ s \in [Targets -> Values \cup {None}]
  BY <1>1 DEF SafeDefine, Remember, Values
<1>4. \A t \in Targets : /\ s[t] = None <=> t \notin Reached
                         /\ t \in Reached => s[t] = clean[t]
                         /\ t \in Reached \ sealed => v[t] = p
                         /\ t \notin Reached => v[t] = clean[t]
  BY <1>1, PersonasApart DEF SafeDefine, Remember
<1>5. CASE Throws
  <2> HIDE DEF v, s
  <2>1. value' = Undo(v, s) /\ saved' = Nothing /\ activePersona' = None
    BY <1>5 DEF ApplyPersona, FailApply, clean, v, s
  <2>2. value' \in [Targets -> Values]
    BY <1>3, <2>1 DEF Undo
  <2>3. \A t \in Targets \ sealed : value'[t] = clean[t]
    BY <1>1, <1>4, <2>1 DEF Undo
  <2> QED BY <1>0, <1>1, <1>2, <2>1, <2>2, <2>3
          DEF ScriptInv, ScriptTypeOK, SavedIsOwn, SavedFits, Nothing, Original
<1>6. CASE ~Throws
  <2>0. Reached = Targets \ missing
    BY <1>0, <1>6, RequiredAssumption DEF Throws, Reached
  <2> HIDE DEF v, s
  <2>1. value' = v /\ saved' = s /\ activePersona' = p
    BY <1>6 DEF ApplyPersona, clean, v, s
  <2>2. SavedIsOwn' /\ SavedFits'
    BY <1>1, <1>2, <1>4, <2>0, <2>1, PersonasApart DEF SavedIsOwn, SavedFits, Original
  <2> QED BY <1>0, <1>2, <1>3, <2>1, <2>2 DEF ScriptInv, ScriptTypeOK
<1> QED BY <1>5, <1>6

LEMMA RestoreKeeps ==
    ASSUME ScriptInv, RestoreOriginals
    PROVE  ScriptInv'
<1>1. /\ value' \in [Targets -> Values]
      /\ \A t \in Targets \ sealed : Original(t, value'[t])
  BY UndoOwn DEF RestoreOriginals
<1> QED BY <1>1 DEF RestoreOriginals, history, ScriptInv, ScriptTypeOK, SavedIsOwn,
   SavedFits, Nothing, Original

LEMMA TamperKeeps ==
    ASSUME ScriptInv, NEW t \in Targets, Redefine(t) \/ Seal(t) \/ Remove(t)
    PROVE  ScriptInv'
<1>0. tampers' \in Nat
  BY DEF Redefine, Seal, Remove, Tamper, ScriptInv, ScriptTypeOK
<1>1. CASE Redefine(t)
  <2>1. /\ t \notin sealed /\ value' = [value EXCEPT ![t] = PageOwn]
        /\ own' = [own EXCEPT ![t] = PageOwn]
        /\ overlaid' = IF saved[t] = None THEN overlaid \ {t} ELSE overlaid \cup {t}
        /\ UNCHANGED <<saved, activePersona, sealed, missing>>
    BY <1>1 DEF Redefine
  <2>2. ScriptTypeOK' /\ SavedFits'
    BY <1>0, <2>1 DEF ScriptInv, ScriptTypeOK, SavedFits, Values
  <2>3. saved[t] # None => saved[t] \notin Personas
    BY <2>1, SentinelAssumption DEF ScriptInv, ScriptTypeOK, SavedIsOwn, Original
  <2>4. SavedIsOwn'
    BY <2>1, <2>3 DEF ScriptInv, ScriptTypeOK, SavedIsOwn, Original
  <2> QED BY <2>2, <2>4 DEF ScriptInv
<1>2. CASE Seal(t)
  BY <1>0, <1>2 DEF Seal, history, Original, ScriptInv, ScriptTypeOK, SavedIsOwn, SavedFits
<1>3. CASE Remove(t)
  BY <1>0, <1>3 DEF Remove, history, Original, ScriptInv, ScriptTypeOK, SavedIsOwn,
     SavedFits
<1> QED BY <1>1, <1>2, <1>3

LEMMA ScriptStep == ScriptInv /\ [ScriptNext]_svars => ScriptInv'
  BY ApplyKeeps, RestoreKeeps, TamperKeeps
     DEF ScriptNext, svars, ScriptInv, ScriptTypeOK, SavedIsOwn, SavedFits, Original

LEMMA NoiseStep == [NoiseNext]_nvars => [ScriptNext]_svars
  BY DEF NoiseNext, nvars, Scripted, Draw, GetWebgl, GetImageData, PutImageData, ToDataURL,
     ToBlobThrows, GetChannelData

LEMMA ScriptAlways == NoiseSpec => []ScriptInv
  BY ScriptInitInv, ScriptStep, NoiseStep, PTL DEF NoiseSpec, NoiseInit

(* Every override, saved descriptor and status has its type (injected.ts). *)
THEOREM ScriptTypeCorrect == NoiseSpec => []ScriptTypeOK
<1>1. ScriptInv => ScriptTypeOK
  BY DEF ScriptInv
<1> QED BY <1>1, ScriptAlways, PTL

(* For any set of overrides in any order, and whatever the page freezes,   *)
(* redefines or removes between the messages, the page sees the whole      *)
(* persona that status() names or none of it, and without one its own      *)
(* values, or older ones where it defined something over an override       *)
(* (injected.ts:71-86, 389-437).                                           *)
THEOREM AllOrNothingHolds == NoiseSpec => []AllOrNothing
<1>1. ScriptInv => AllOrNothing
  BY PersonasApart DEF ScriptInv, SavedIsOwn, SavedFits, AllOrNothing
<1> QED BY <1>1, ScriptAlways, PTL

-----------------------------------------------------------------------------
(* Where the noise of getImageData stays out of a single pixel, an export  *)
(* puts back what it found, and its one flipped byte makes a difference.   *)
LEMMA PerturbedApart ==
    ASSUME Apart, NEW p \in Personas
    PROVE  Perturbed(p).left = canvas /\ Perturbed(p).image # canvas
<1> DEFINE x == Seed[p] % Width
           read == Flip(canvas, PerturbPixels(4 * x, 4))
<1>1. x \in Nat
  BY SeedAssumption, WidthAssumption
<1>2. PerturbPixels(4 * x, 4) = {}
  BY DEF Apart, PerturbPixels
<1>3. read = canvas
  BY <1>2 DEF Flip
<1> HIDE DEF x
<1>4. 4 * x \in Pixel(x)
  BY <1>1 DEF Pixel
<1>5. /\ Perturbed(p).left = (canvas \ Pixel(x)) \cup (read \cap Pixel(x))
      /\ Perturbed(p).image =
             (canvas \ Pixel(x)) \cup (Flip(read, {4 * x}) \cap Pixel(x))
  BY DEF Perturbed, x
<1> HIDE DEF read
<1>6. Perturbed(p).left = canvas
  BY <1>3, <1>5
<1>7. 4 * x \in Perturbed(p).image <=> 4 * x \notin canvas
  BY <1>3, <1>4, <1>5 DEF Flip
<1> QED BY <1>6, <1>7

(* What the next export will return.                                       *)
Covered == value["toDataURL"] \in Personas /\ context # "webgl"
NextPrint == IF Covered THEN Perturbed(value["toDataURL"]).image ELSE canvas

(* All the exports since the last change returned just that, or, after one *)
(* that threw, the canvas as it is now: a throw swaps the two.  A canvas   *)
(* that the override exported has a context.                               *)
PrintInv ==
    /\ Apart => prints \subseteq IF spoiled THEN {NextPrint, canvas} ELSE {NextPrint}
    /\ value["toDataURL"] \in Personas /\ context = "none" => prints = {}
    /\ spoiled => value["toDataURL"] \in Personas /\ context = "2d"

LEMMA ExportKeeps ==
    ASSUME PrintInv, ToDataURL
    PROVE  /\ PrintInv'
           /\ prints' = prints \cup {NextPrint} /\ (Apart => canvas' = canvas)
<1>0. UNCHANGED svars
  BY DEF ToDataURL
<1>1. value' = value /\ Apart' = Apart /\ spoiled' = spoiled
  BY <1>0 DEF svars, Apart, PerturbPixels, ToDataURL
<1>2. CASE Covered
  <2>1. /\ prints' = prints \cup {Perturbed(value["toDataURL"]).image}
        /\ canvas' = Perturbed(value["toDataURL"]).left /\ context' = "2d"
    BY <1>2 DEF ToDataURL, Export, Covered
  <2>2. prints' = prints \cup {NextPrint} /\ (Apart => canvas' = canvas)
    BY <1>2, <2>1, PerturbedApart DEF NextPrint, Covered
  <2>3. Apart => NextPrint' = NextPrint
    BY <1>1, <1>2, <2>1, <2>2 DEF NextPrint, Covered, Perturbed, PerturbPixels
  <2> QED BY <1>1, <2>1, <2>2, <2>3 DEF PrintInv
<1>3. CASE ~Covered
  <2>1. prints' = prints \cup {canvas} /\ UNCHANGED <<canvas, context>>
    BY <1>3 DEF ToDataURL, Covered
  <2>2. ~Covered' /\ NextPrint' = canvas /\ NextPrint = canvas
    BY <1>1, <1>3, <2>1 DEF NextPrint, Covered
  <2> QED BY <1>1, <1>3, <2>1, <2>2 DEF PrintInv, Covered
<1> QED BY <1>2, <1>3

(* An export that throws leaves its print on the canvas, so that the next  *)
(* export returns what the canvas was before.                              *)
LEMMA ThrowKeeps == ASSUME PrintInv, ToBlobThrows PROVE PrintInv'
<1> DEFINE p == value["toDataURL"]
           x == Seed[p] % Width
<1>1. /\ p \in Personas /\ Covered /\ canvas' = Perturbed(p).image
      /\ context' = "2d" /\ spoiled' /\ UNCHANGED <<svars, prints>>
  BY DEF ToBlobThrows, Covered
<1>2. value' = value /\ Apart' = Apart /\ Covered' /\ NextPrint = canvas'
  BY <1>1 DEF svars, Apart, PerturbPixels, Covered, NextPrint
<1>3. ASSUME Apart PROVE NextPrint' = canvas
  <2>1. x \in Nat
    BY <1>1, SeedAssumption, WidthAssumption
  <2>2. PerturbPixels(4 * x, 4) = {} /\ PerturbPixels(4 * x, 4)' = {}
    BY <1>2, <1>3 DEF Apart, PerturbPixels
  <2>3. /\ canvas' = (canvas \ Pixel(x)) \cup (Flip(canvas, {4 * x}) \cap Pixel(x))
        /\ NextPrint' = (canvas' \ Pixel(x)) \cup (Flip(canvas', {4 * x}) \cap Pixel(x))
    BY <1>1, <1>2, <2>2 DEF Perturbed, NextPrint, Flip
  <2>4. 4 * x \in Pixel(x)
    BY <2>1 DEF Pixel
  <2> QED BY <2>3, <2>4 DEF Flip
<1> QED BY <1>1, <1>2, <1>3 DEF PrintInv

LEMMA PrintStep == PrintInv /\ [NoiseNext]_nvars => PrintInv'
<1> SUFFICES ASSUME PrintInv, [NoiseNext]_nvars PROVE PrintInv'
  OBVIOUS
<1>1. CASE ToDataURL
  BY <1>1, ExportKeeps
<1>2. CASE Draw \/ PutImageData
  BY <1>2 DEF Draw, PutImageData, NewPrints, PrintInv
<1>3. ASSUME UNCHANGED <<canvas, context, prints, spoiled>>,
             value'["toDataURL"] = value["toDataURL"],
             value'["getImageData"] = value["getImageData"]
      PROVE  PrintInv'
  BY <1>3 DEF PrintInv, Apart, NextPrint, Covered, Perturbed, PerturbPixels
<1>4. CASE GetWebgl
  <2>1. UNCHANGED <<svars, canvas, prints, spoiled>> /\ context = "none" /\ context' = "webgl"
    BY <1>4 DEF GetWebgl
  <2>2. value' = value /\ Apart' = Apart
    BY <2>1 DEF svars, Apart, PerturbPixels
  <2> QED BY <2>1, <2>2 DEF PrintInv, NextPrint, Covered
<1>5. CASE GetImageData \/ GetChannelData \/ UNCHANGED nvars
  BY <1>3, <1>5 DEF GetImageData, GetChannelData, nvars, cvars, svars
<1>6. CASE Scripted
  <2>1. CASE \E t \in {"getImageData", "toDataURL"} : value'[t] # value[t]
    BY <1>6, <2>1 DEF Scripted, NewPrints, PrintInv
  <2>2. CASE \A t \in {"getImageData", "toDataURL"} : value'[t] = value[t]
    BY <1>3, <1>6, <2>2 DEF Scripted
  <2> QED BY <2>1, <2>2
<1>7. CASE ToBlobThrows
  BY <1>7, ThrowKeeps
<1> QED BY <1>1, <1>2, <1>4, <1>5, <1>6, <1>7 DEF NoiseNext

LEMMA PrintAlways == NoiseSpec => []PrintInv
<1>1. NoiseInit => PrintInv
  BY DEF NoiseInit, PrintInv
<1> QED BY <1>1, PrintStep, PTL DEF NoiseSpec

(* For every seed and width, a persona's exports of one canvas are one     *)
(* print, and two once one of them threw (injected.ts:349-371).            *)
THEOREM StablePrintHolds == NoiseSpec => []StablePrint
<1>1. PrintInv => StablePrint
  <2> SUFFICES ASSUME PrintInv, Apart
               PROVE  Cardinality(prints) <= IF spoiled THEN 2 ELSE 1
    BY DEF StablePrint
  <2>1. CASE spoiled
    <3>1. prints \subseteq {NextPrint, canvas}
      BY <2>1 DEF PrintInv
    <3>2. IsFiniteSet({NextPrint, canvas}) /\ Cardinality({NextPrint, canvas}) <= 2
      <4>1. {NextPrint, canvas} = {NextPrint} \cup {canvas}
        OBVIOUS
      <4>2. IsFiniteSet({NextPrint}) /\ Cardinality({NextPrint}) = 1
        BY FS_Singleton
      <4> QED BY <4>1, <4>2, FS_AddElement
    <3>3. IsFiniteSet(prints) /\ Cardinality(prints) <= Cardinality({NextPrint, canvas})
      BY <3>1, <3>2, FS_Subset
    <3>4. Cardinality(prints) \in Nat /\ Cardinality({NextPrint, canvas}) \in Nat
      BY <3>2, <3>3, FS_CardinalityType
    <3> QED BY <2>1, <3>2, <3>3, <3>4
  <2>2. CASE ~spoiled
    <3>1. prints \subseteq {NextPrint}
      BY <2>2 DEF PrintInv
    <3>2. IsFiniteSet({NextPrint}) /\ Cardinality({NextPrint}) = 1
      BY FS_Singleton
    <3> QED BY <2>2, <3>1, <3>2, FS_Subset
  <2> QED BY <2>1, <2>2
<1> QED BY <1>1, PrintAlways, PTL

(* An export leaves the canvas as it found it and does not return it.      *)
THEOREM ExportsArePureHolds == NoiseSpec => ExportsArePure
<1> DEFINE Pure == /\ canvas' = canvas
                   /\ context # "webgl" =>
                          \E image \in prints' \ {canvas} :
                              prints' = prints \cup {image}
<1>1. PrintInv /\ [NoiseNext]_nvars =>
          [ToDataURL /\ Apart /\ value["toDataURL"] \in Personas => Pure]_nvars
  <2> SUFFICES ASSUME PrintInv, ToDataURL, Apart, value["toDataURL"] \in Personas
               PROVE  Pure
    OBVIOUS
  <2>1. canvas' = canvas /\ prints' = prints \cup {NextPrint}
    BY ExportKeeps
  <2>2. context # "webgl" => NextPrint # canvas
    BY PerturbedApart DEF NextPrint, Covered
  <2> QED BY <2>1, <2>2
<1> QED BY <1>1, PrintAlways, PTL DEF NoiseSpec, ExportsArePure
=============================================================================
