-------------------------- MODULE MCCommandExecutor --------------------------
EXTENDS CommandExecutor

CONSTANTS a, b, n

\* Two characters are enough for a pattern and for text without it; a pattern
\* of two can be cut by a chunk.
MCChars == {a, b, n}
MCPatterns == {<<>>, <<a>>, <<a, b>>}
MCLimits == {-1, 0, 1, 2}
=============================================================================
