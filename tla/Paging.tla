------------------------------- MODULE Paging -------------------------------
(***************************************************************************)
(* The page directory (mm.c): all of the first directory entry's memory    *)
(* mapped to itself, nothing else.  Page tables are named by where they    *)
(* are; addresses are page numbers.  idpaging and map_page have no caller. *)
(***************************************************************************)
EXTENDS Integers

CONSTANT Entries         \* of a directory and of a table, 1024
ASSUME PagingAssumption == Entries \in Nat \ {0}

VARIABLES pageDirectory, firstPageTable, paging, isr_routines

pagingvars == <<pageDirectory, firstPageTable, paging, isr_routines>>
Indices == 0..(Entries - 1)
Absent == [present |-> FALSE, to |-> 0]
Zeroed == [i \in Indices |-> Absent]
PAGE_FAULT == 14

PagingInit == /\ pageDirectory = Zeroed /\ firstPageTable = Zeroed
              /\ paging = FALSE /\ isr_routines = {}

\* mutant of Frame: entry i is shifted by one page
FrameOff(i) == i + 1
Frame(i) == i

\* One straight line: interrupts use no page before paging is enabled.
init_page_directory ==
    /\ firstPageTable' = [i \in Indices |-> [present |-> TRUE, to |-> Frame(i)]]
    /\ pageDirectory' = [Zeroed EXCEPT ![0] = [present |-> TRUE, to |-> 0]]
    /\ isr_routines' = isr_routines \cup {PAGE_FAULT}
    /\ paging' = TRUE

pdindex(page) == page \div Entries
ptindex(page) == page % Entries

\* The processor's walk: the page, or a fault.
Fault == -1
Translate(page) ==
    IF ~paging THEN page
    ELSE IF /\ pageDirectory[pdindex(page)].present
            /\ firstPageTable[ptindex(page)].present
         THEN firstPageTable[ptindex(page)].to ELSE Fault

\* The kernel's walk looks at no directory entry.
get_physaddr(page) == firstPageTable[ptindex(page)].to
=============================================================================
