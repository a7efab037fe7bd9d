---------------------------- MODULE CanvasNoise -----------------------------
(***************************************************************************)
(* What the overrides of PageScript do to data of the page when it calls   *)
(* them: reading and exporting a canvas, reading an audio buffer.          *)
(*                                                                         *)
(* The canvas is one row of Width pixels of four bytes.  All the noise     *)
(* flips lowest bits, so "canvas" is the set of bytes that differ from     *)
(* what the page drew.  Pixels are opaque (a transparent one would lose    *)
(* its colours on the way), and the canvas is too small for a second byte  *)
(* of noise, which comes 401 bytes after the first.                        *)
(***************************************************************************)
EXTENDS PageScript, FiniteSets

CONSTANTS
    Seed,           \* hashPersona
    Width,          \* of the canvas, in pixels
    MaxAudioReads   \* bound on the reads of the audio buffer

ASSUME SeedAssumption == Seed \in [Personas -> Nat]
ASSUME WidthAssumption == Width \in 1 .. 100
ASSUME NoiseTargetsAssumption ==
    {"getImageData", "toDataURL", "getChannelData"} \subseteq Targets

VARIABLES
    canvas,     \* the bytes of the canvas that were flipped
    context,    \* which context the canvas has
    buffer,     \* what the page last read, flipped bytes again
    prints,     \* history: the results of exports since the last change
    spoiled,    \* history: one of them threw, see ToBlobThrows
    audio       \* how often the noise was added to the audio buffer

cvars == <<canvas, context, buffer, prints, spoiled, audio>>
nvars == <<svars, cvars>>

NoiseInit ==
    /\ ScriptInit
    /\ canvas = {}
    /\ context = "none"
    /\ buffer = {}
    /\ prints = {}
    /\ spoiled = FALSE
    /\ audio = 0

Flip(a, b) == (a \ b) \cup (b \ a)

(* perturbPixels of the getImageData in place, on a region of n bytes      *)
(* that starts at byte "first" of the canvas.                              *)
PerturbPixels(first, n) ==
    LET q == value["getImageData"]
        i == Seed[q] % 13
    IN  IF q \in Personas /\ i < n THEN {first + i} ELSE {}

Pixel(x) == 4 * x .. 4 * x + 3

\* Mutant: the pixel is put back before the export.
PerturbedTooLate(p) ==
    LET x == Seed[p] % Width
        read == Flip(canvas, PerturbPixels(4 * x, 4))
    IN  [image |-> (canvas \ Pixel(x)) \cup (read \cap Pixel(x)),
         left  |-> (canvas \ Pixel(x)) \cup (read \cap Pixel(x))]

(* withCanvasPerturbation: the page gets "image", the canvas keeps "left". *)
(* The pixel is read through the getImageData of the page, patched as it   *)
(* may be, and what was read is what is put back.                          *)
Perturbed(p) ==
    LET x == Seed[p] % Width
        read == Flip(canvas, PerturbPixels(4 * x, 4))
    IN  [image |-> (canvas \ Pixel(x)) \cup (Flip(read, {4 * x}) \cap Pixel(x)),
         left  |-> (canvas \ Pixel(x)) \cup (read \cap Pixel(x))]

-----------------------------------------------------------------------------
(* The page at work.                                                       *)

(* Prints are compared as long as canvas and overrides are the same.       *)
NewPrints == prints' = {} /\ spoiled' = FALSE

Draw ==
    /\ context \in {"none", "2d"}
    /\ context' = "2d"
    /\ canvas' = {}
    /\ NewPrints
    /\ UNCHANGED <<svars, buffer, audio>>

GetWebgl ==
    /\ context = "none"
    /\ context' = "webgl"
    /\ UNCHANGED <<svars, canvas, buffer, prints, spoiled, audio>>

\* Mutant: the noise is put on the canvas, not on the copy.
GetImageDataInPlace ==
    /\ context = "2d"
    /\ buffer' = Flip(canvas, PerturbPixels(0, 4 * Width))
    /\ canvas' = buffer'
    /\ UNCHANGED <<svars, context, prints, spoiled, audio>>

GetImageData ==
    /\ context = "2d"
    /\ buffer' = Flip(canvas, PerturbPixels(0, 4 * Width))
    /\ UNCHANGED <<svars, canvas, context, prints, spoiled, audio>>

PutImageData ==
    /\ context = "2d"
    /\ canvas' = buffer
    /\ NewPrints
    /\ UNCHANGED <<svars, context, buffer, audio>>

(* toDataURL and toBlob as the script defines them; getContext("2d") gives *)
(* a canvas without context one, and null to a canvas with another.        *)
Export(p) ==
    /\ canvas' = Perturbed(p).left
    /\ prints' = prints \cup {Perturbed(p).image}
    /\ context' = "2d"

ToDataURL ==
    /\ IF value["toDataURL"] \in Personas /\ context # "webgl"
       THEN Export(value["toDataURL"])
       ELSE /\ prints' = prints \cup {canvas}
            /\ UNCHANGED <<canvas, context>>
    /\ UNCHANGED <<svars, buffer, spoiled, audio>>

(* toBlob without a function to call back: the export throws after the     *)
(* pixel was perturbed, and nobody puts it back.  The page drew nothing,   *)
(* so the exports before and after it are of the same canvas.              *)
ToBlobThrows ==
    /\ value["toDataURL"] \in Personas
    /\ context # "webgl"
    /\ canvas' = Perturbed(value["toDataURL"]).image
    /\ context' = "2d"
    /\ spoiled' = TRUE
    /\ UNCHANGED <<svars, buffer, prints, audio>>

(* The noise is added to the page's own array, every time it asks for it.  *)
GetChannelData ==
    /\ audio < MaxAudioReads
    /\ audio' = audio + (IF value["getChannelData"] \in Personas THEN 1 ELSE 0)
    /\ UNCHANGED <<svars, canvas, context, buffer, prints, spoiled>>

(* A step of PageScript; other functions may make other prints.            *)
Scripted ==
    /\ ScriptNext
    /\ IF \E t \in {"getImageData", "toDataURL"} : value'[t] # value[t]
       THEN NewPrints ELSE UNCHANGED <<prints, spoiled>>
    /\ UNCHANGED <<canvas, context, buffer, audio>>

NoiseNext ==
    \/ Scripted
    \/ Draw \/ GetWebgl \/ GetImageData \/ PutImageData
    \/ ToDataURL \/ ToBlobThrows \/ GetChannelData

NoiseSpec == NoiseInit /\ [][NoiseNext]_nvars

-----------------------------------------------------------------------------
(* The noise of getImageData does not reach into a region of one pixel.    *)
Apart == PerturbPixels(0, 4) = {}

(* A stable print: however often a page exports a canvas, and whatever it  *)
(* reads in between, one persona gives it one result, as long as its noise *)
(* in getImageData stays out of the pixel that toDataURL reads back        *)
(* through it (hashPersona modulo 13 at least 4).  Except: an export that  *)
(* throws (injected.ts:359-364) leaves its pixel behind, and from then on  *)
(* there may be one other print, but however many throw, no third one.     *)
StablePrint ==
    Apart => Cardinality(prints) <= IF spoiled THEN 2 ELSE 1

(* An export returns something else than the canvas and leaves the canvas  *)
(* as it was, under the same condition, and unless the canvas has a WebGL  *)
(* context, which is exported as it is.                                    *)
ExportsArePure ==
    [][ToDataURL /\ Apart /\ value["toDataURL"] \in Personas =>
          /\ canvas' = canvas
          /\ context # "webgl" =>
                 \E image \in prints' \ {canvas} : prints' = prints \cup {image}]_nvars

(* docs/FacadeProxydesigndoc.md:362 on the page script: "MUST restore      *)
(* originals on persona UNSET (no permanent side effects)".                *)
NoSideEffects == activePersona = None /\ sealed = {} => audio = 0
=============================================================================
