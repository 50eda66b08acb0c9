---------------------------- MODULE MCJosSched -----------------------------
EXTENDS JosSched
=============================================================================
