------------------------------ MODULE MCConsole ------------------------------
EXTENDS Console

MCPrompt == <<"c">>
MCComplaint == <<"c", NL, "c">>
=============================================================================
