----------------------------- MODULE ChatTurnsMC -----------------------------
EXTENDS ChatTurns

\* Two photos of an album and a text.
Album == <<"photo", "photo", "text">>

PhotoThenVoice == <<"photo", "voice">>
=============================================================================
