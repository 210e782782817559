----------------------------- MODULE MCNarrate ------------------------------
\* Three weeks, two looked at; a digest is one chunk or two.  Every text of up to three
\* paragraphs of up to two sentences of one to seven characters is cut.
EXTENDS Narrate

MCTexts == BoundedSeq(BoundedSeq({1, 2, 3, 7}, 2) \ {<<>>}, 3) \ {<<>>}
MCScripts == {<<<<2>>>>, <<<<7>>>>}
=============================================================================
