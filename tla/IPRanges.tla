------------------------------ MODULE IPRanges ------------------------------
(***************************************************************************)
(* CIPList: a table of address ranges that Load reads from a file, one     *)
(* line at a time, merging ranges that overlap or touch, and that IpExists *)
(* searches.  A line gives one address and, if it does, the last address   *)
(* of its range; else the zeros at its end say how long the range is.      *)
(*                                                                         *)
(* Load keeps the lock of the list for writing throughout, so its steps    *)
(* here are the lines, not interleaved with searches.  An address has Bits *)
(* bits (32 in the code), each of its lower octets OctetBits (8), and      *)
(* arithmetic wraps.                                                       *)
(***************************************************************************)
EXTENDS Integers, Sequences, SequencesExt, FiniteSetsExt

CONSTANTS Bits, OctetBits,
          MaxLines  \* lines of the file: bounds the history

ASSUME IPRangesAssumption ==
  /\ Bits \in Nat /\ OctetBits \in Nat \ {0} /\ 2 * OctetBits < Bits /\ MaxLines \in Nat
  \* these are true, but the prover has no facts on ^
  /\ 2^Bits \in Nat \ {0} /\ 2^OctetBits \in Nat \ {0}
  /\ \E n \in 0..2^Bits : 2^Bits = (2^OctetBits * 2^OctetBits) * n

VARIABLES
  table,   \* records <<begin, end>>; the address end is no longer in the range
  file,    \* history: the ranges <<first, last>> of the lines read, as the file gives them
  lines,   \* how many lines have been read
  misfit   \* a range from address 0 was read when the table was not empty

ipVars == <<table, file, lines, misfit>>

Size == 2^Bits
Addresses == 0..Size - 1
OctetSize == 2^OctetBits

IPInit == table = <<>> /\ file = {} /\ lines = 0 /\ misfit = FALSE

-----------------------------------------------------------------------------
\* how many addresses a line means that gives only `begin`
DefaultLength(begin) ==
  IF begin % OctetSize # 0 THEN 1
  ELSE IF (begin \div OctetSize) % OctetSize # 0 THEN OctetSize
  ELSE OctetSize * OctetSize

\* std::upper_bound in a table sorted by end: the first record that ends above a
UpperBound(a) ==
  LET above == {i \in 1..Len(table) : a < table[i][2]}
  IN  IF above = {} THEN Len(table) + 1 ELSE Min(above)

\* the bug of a merge that forgets how far the swallowed range reaches
Reach_Cut(end, swallowed) == end
Reach(end, swallowed) == Max({end} \cup {table[i][2] : i \in swallowed})

\* The records from place `it` on that begin at or before the end so far, which
\* grows with each of them: the while loop stops at the first gap.
Swallowed(it, end) ==
  {i \in it..Len(table) :
     \A j \in it..i : table[j][1] <= Max({end} \cup {table[k][2] : k \in it..j - 1})}

\* The body of the loop over the lines for a record begin..end.  begin - 1 wraps
\* for address 0 and then lies above every range, so the record goes to the end.
Insert(begin, end) ==
  LET before == (begin - 1) % Size
      it     == UpperBound(before)
      left   == it <= Len(table) /\ table[it][1] <= before
      gone   == IF left THEN {it} ELSE {}
      start  == IF left THEN table[it][1] ELSE begin
      next   == IF left THEN it + 1 ELSE it
      after  == Swallowed(next, end)
      record == <<start, Reach(end, after)>>
  IN  IF left /\ table[it][2] >= end THEN table
      ELSE SubSeq(table, 1, it - 1) \o <<record>>
             \o SubSeq(table, next + Cardinality(after), Len(table))

\* A line whose range is begin..last.  When last is the top address, last + 1 wraps to
\* 0, and the line is logged and skipped like one whose range is empty.
ReadLine(begin, last) ==
  LET end == (last + 1) % Size IN
  /\ lines < MaxLines /\ ~misfit
  /\ lines' = lines + 1
  /\ file' = IF begin <= last THEN file \cup {<<begin, last>>} ELSE file
  /\ IF begin >= end THEN UNCHANGED <<table, misfit>>
     ELSE /\ table' = Insert(begin, end)
          /\ misfit' = (begin = 0 /\ table # <<>>)

\* Load again, from the menu: the table is cleared first
Reload ==
  /\ lines > 0
  /\ table' = <<>> /\ file' = {} /\ lines' = 0 /\ misfit' = FALSE

IPNext ==
  \/ \E begin \in Addresses : ReadLine(begin, begin + DefaultLength(begin) - 1)
  \/ \E begin, last \in Addresses : ReadLine(begin, last)
  \/ Reload

IPSpec == IPInit /\ [][IPNext]_ipVars

\* CIPList::IpExists
IpExists(a) ==
  LET it == UpperBound(a) IN it <= Len(table) /\ table[it][1] <= a

-----------------------------------------------------------------------------
(* Properties *)

IPTypeOK ==
  /\ table \in Seq(Addresses \X Addresses) /\ file \subseteq Addresses \X Addresses
  /\ lines \in 0..MaxLines /\ misfit \in BOOLEAN

\* the addresses that a line covers which does not end at the top address
Covered == {a \in Addresses : \E line \in file :
              line[1] <= a /\ a <= line[2] /\ line[2] # Size - 1}

\* A client is found in the list exactly when some line covers its address,
\* whatever the order in which ranges overlap, touch or contain each other: the
\* table stays sorted with gaps between its records, as the binary search needs.
\* There are two exceptions.  A line whose range ends at the top address lists
\* nothing, since the end of its record wraps to 0 (IPList.cpp:141-146); and after a
\* range from address 0 that follows other lines, nothing is said (IPList.cpp:154).
SearchMatchesFile ==
  ~misfit =>
    /\ \A i \in 1..Len(table) - 1 : table[i][2] < table[i + 1][1]
    /\ \A a \in Addresses : IpExists(a) <=> a \in Covered
=============================================================================
