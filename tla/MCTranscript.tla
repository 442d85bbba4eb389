---------------------------- MODULE MCTranscript ----------------------------
EXTENDS Transcript

CONSTANTS a, b

TwoLetters == {a, b}

\* No letter is named anywhere: exchanging them changes nothing.
AnyLetters == Permutations(TwoLetters)
=============================================================================
