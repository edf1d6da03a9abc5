---------------------------------- MODULE MCNet ----------------------------------
EXTENDS Net, TLC

UserPerms == Permutations(Users)
==================================================================================
