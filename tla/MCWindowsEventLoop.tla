------------------------- MODULE MCWindowsEventLoop -------------------------
\* Messages of one and of two bytes.
EXTENDS WindowsEventLoop

MCData == {<<"a">>, <<"b", "c">>}
MCByte == {"a", "b", "c"}
=============================================================================
