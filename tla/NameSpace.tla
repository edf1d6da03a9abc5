------------------------------- MODULE NameSpace -------------------------------
(***************************************************************************)
(* The name space: a table of prefixes, each with the device and the       *)
(* replacement that names beginning with it have.                          *)
(***************************************************************************)
EXTENDS Integers, Sequences, SequencesExt, FiniteSetsExt

CONSTANTS
  Letters,           (* what names are made of                              *)
  NAMPLEN, NAMLEN,   (* longest prefix and replacement; longest name        *)
  NNAMES,            (* entries of the table                                *)
  MaxMounts          (* bound: calls of mount and unmount                   *)

ASSUME NameAssumption ==
  Letters # {} /\ NAMPLEN \in Nat /\ NAMLEN \in Nat /\ NNAMES \in Nat /\ MaxMounts \in Nat

NAMESPACE == "namespace"
SYSERR == "syserr"
Devs == {NAMESPACE, SYSERR, "rfilsys"}
Names == UNION {[1 .. k -> Letters] : k \in 0 .. NAMPLEN}

VARIABLES
  nametab,           (* the entries, the last name prefix last              *)
  touched,           (* history: the prefix of the last call                *)
  mounts

nameVars == <<nametab, touched, mounts>>

Entry(prefix, dev, replace) == [npre |-> prefix, ndev |-> dev, nrepl |-> replace]
EntriesOf(prefix) == {i \in 1 .. Len(nametab) : nametab[i].npre = prefix}

------------------------------------------------------------------------------
(* mount and unmount, with interrupts disabled. *)

\* Mutant: a new entry goes to the end.
MountLast(prefix, dev, replace) ==
  LET e == Entry(prefix, dev, replace) IN
  nametab' = IF EntriesOf(prefix) # {} THEN [nametab EXCEPT ![Min(EntriesOf(prefix))] = e]
             ELSE IF Len(nametab) >= NNAMES THEN nametab ELSE Append(nametab, e)

\* A prefix that is there gets its new meaning in place, a new one goes before the last.
Mount(prefix, dev, replace) ==
  LET e == Entry(prefix, dev, replace) n == Len(nametab) IN
  nametab' = IF EntriesOf(prefix) # {} THEN [nametab EXCEPT ![Min(EntriesOf(prefix))] = e]
             ELSE IF n >= NNAMES THEN nametab
             ELSE IF n = 0 THEN <<e>> ELSE InsertAt(nametab, n, e)

Unmount(prefix) ==
  nametab' = IF EntriesOf(prefix) = {} THEN nametab ELSE RemoveAt(nametab, Min(EntriesOf(prefix)))

------------------------------------------------------------------------------
(* namrepl and nammap, with interrupts disabled. *)

\* One replacement, by the first prefix that fits; SYSERR if none does or it gets too long.
NamreplIn(table, name) ==
  LET fits == {i \in 1 .. Len(table) : IsPrefix(table[i].npre, name)}
      e == table[Min(fits)]
      new == e.nrepl \o SubSeq(name, Len(e.npre) + 1, Len(name))
  IN  IF fits = {} \/ Len(new) >= NAMLEN THEN [dev |-> SYSERR, name |-> <<>>]
      ELSE [dev |-> e.ndev, name |-> new]

\* nammap replaces until another device comes out: the result of as many rounds as the
\* longest name has letters.
NammapIn(table, name) ==
  LET r[k \in 0 .. NAMLEN] ==
        IF k = 0 THEN NamreplIn(table, name)
        ELSE IF r[k-1].dev = NAMESPACE THEN NamreplIn(table, r[k-1].name) ELSE r[k-1]
  IN  r[NAMLEN]

------------------------------------------------------------------------------
Mounts(prefix) == mounts < MaxMounts /\ mounts' = mounts + 1 /\ touched' = prefix

NameNext ==
  \E prefix \in Names :
    /\ Mounts(prefix)
    /\ \/ \E dev \in Devs, replace \in Names : Mount(prefix, dev, replace)
       \/ Unmount(prefix)

\* naminit mounts a default for every name, and before it others that lead to a device
\* directly or through the name space; here one of each.
Naminit ==
  LET x == CHOOSE l \in Letters : TRUE IN
  <<Entry(<<x>>, "rfilsys", <<>>), Entry(<<>>, NAMESPACE, <<x>>)>>

NameInit == nametab = Naminit /\ touched = <<>> /\ mounts = 0

------------------------------------------------------------------------------
(* Safety. *)

\* mount and unmount change the meaning of no name but those that begin with their prefix,
\* no prefix is twice in the table, a prefix that has been mounted has its meaning from its
\* entry or one before it, never from the last entry alone, and nammap comes to an end as
\* long as names only get longer in the name space.
NamesSound ==
  [][mounts' # mounts =>
       /\ \A n \in Names : ~IsPrefix(touched', n) => NamreplIn(nametab', n) = NamreplIn(nametab, n)
       /\ \A i, j \in DOMAIN nametab' : nametab'[i].npre = nametab'[j].npre => i = j
       /\ Len(nametab') > Len(nametab) /\ nametab # <<>> => Last(nametab') = Last(nametab)
       /\ (\A i \in DOMAIN nametab' : nametab'[i].ndev = NAMESPACE =>
                                         Len(nametab'[i].nrepl) > Len(nametab'[i].npre))
            => \A n \in Names : NammapIn(nametab', n).dev # NAMESPACE]_nameVars
================================================================================
