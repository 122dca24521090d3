------------------------------- MODULE MCBot -------------------------------
EXTENDS Bot

CONSTANTS u1, author

Cast(time, prefixed, lines, mute) ==
    [time |-> time, author |-> u1, prefixed |-> prefixed, lines |-> lines, mute |-> mute,
     parent |-> author]

\* A poll, one with too many options in the same second, and a request to mute.
MCCasts ==
    {Cast(1, FALSE, <<Text, Option, Blank, Option, Hours(2), Text>>, FALSE),
     Cast(1, FALSE, <<Text, Option, Option, Option>>, FALSE),
     Cast(2, TRUE, <<Text>>, TRUE)}
=============================================================================
