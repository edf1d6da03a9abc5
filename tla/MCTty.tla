------------------------------- MODULE MCTty -------------------------------
EXTENDS Tty, TLC

Written == {<<"NL">>, <<"x", "NL", "x">>}
TtyWorkloads == {
  {"read", "x", "NL", "EOF"},
  {"read", "x", "NL", "next"},
  {"read", "getc", "x", "NL", "ERASE", "KILL", "echo"},
  {"getc", "x", "KILL", "NL", "mode"},
  {"getc", "x", "INTR", "NL", "intr"},
  {"write", "STOP", "START"},
  {"write", "KILL"} }
Perms == Permutations(Procs)
============================================================================
