----------------------------- MODULE MCLogStream -----------------------------
EXTENDS LogStream, TLC

MCBothKinds == {"full", "part"}
MCFullOnly  == {"full"}

=============================================================================
