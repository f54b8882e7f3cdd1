-------------------------- MODULE MC_GuestReader --------------------------
EXTENDS GuestReader

\* With one-bit bytes: padding of one, three and no bytes, an empty entry, and
\* an entry of all-zero bytes that a lost length would be mistaken for.
MCStreams == << <<1, 0, 1>>, <<>>, <<0, 0, 0, 0>>, <<1, 1, 1, 0, 1>> >>

\* A flag and a field element, and one that starts like the frame of an entry.
MCAnswers == { <<1, 0, 0, 0, 1, 0, 1, 1>>, <<0, 0, 1, 0>> }
=============================================================================
