------------------------------ MODULE MCStorage ------------------------------
EXTENDS Storage, TLC

StorageWorkloads == {
  {"getbuf", "freebuf", "pcreate", "psend", "preceive", "preset"},
  {"getbuf", "freebuf", "pcreate", "psend", "preset", "kill"},
  {"getbuf", "pcreate", "psend", "preceive", "pdelete", "kill"},
  {"getbuf", "freebuf", "kill"},
  {"getbuf", "freebuf", "mkpool"},
  {"pcreate", "mark"},
  {"heap"} }
Perms == Permutations(Procs)
===============================================================================
