---------------------------- MODULE MCIntegration ----------------------------
\* Integration on two of the four shells: bash, which cannot bind Shift+Space, and
\* nu, which can.
EXTENDS Integration

MCOrder == <<"bash", "nu">>
=============================================================================
