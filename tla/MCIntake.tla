------------------------------ MODULE MCIntake ------------------------------
\* Two product types; the rule "single" refuses one of the images, the rule
\* "both" needs one of each type; the name of one file does not parse.
EXTENDS Intake, TLC

CONSTANTS img, img2, log, junk, image, report, single, both

MCTypeOf == img :> image @@ img2 :> image @@ log :> report @@ junk :> NoType
MCInputs == single :> {image} @@ both :> {image, report}
MCRefused == {<<single, {img2}>>}

\* Two files
SmallTypeOf == img :> image @@ log :> report
=============================================================================
