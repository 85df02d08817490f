------------------------------ MODULE MCPaging ------------------------------
(***************************************************************************)
(* Tables of three entries, one identity page directory: nine frames, the  *)
(* kernel's tables in frames 6 to 8, a virtual address space of 81 pages.  *)
(***************************************************************************)
EXTENDS Paging

mcKPD == [i \in 0 .. 0 |-> 8]

V(pml4, pdpt, pd, pt, offset) ==
  (((pml4 * E + pdpt) * E + pd) * E + pt) * E + offset

Entry(base, length, type) ==
  [base |-> base, length |-> length, mem_type |-> type]

\* Frames 0 to 3, and the kernel's page directory: it is offered like any
\* other memory, and handed out when nothing else is left.
mcMemoryMap ==
  << Entry(0, 12, "Available"), Entry(12, 12, "Reserved"), Entry(24, 3, "Available") >>

\* Two addresses of one page, its neighbour in the same table, pages that
\* need a new PT or a new PD, both aliases of a page above the identity
\* mapping, and two huge pages inside it: the first frame of the one is an
\* ordinary frame, that of the other the root table.
mcVirts ==
  { V(1, 0, 0, 0, 0), V(1, 0, 0, 0, 2), V(1, 0, 0, 1, 0),
    V(1, 0, 2, 0, 0), V(0, 1, 0, 0, 0), V(2, 1, 0, 0, 0),
    V(0, 0, 1, 1, 0), V(0, 0, 2, 0, 0), V(2, 0, 0, 1, 1) }

mcTargets ==
  { V(1, 0, 0, 0, 0), V(1, 0, 0, 1, 0), V(1, 0, 2, 0, 0),
    V(2, 1, 0, 0, 0), V(0, 0, 1, 1, 0), V(0, 0, 2, 0, 0) }

\* Two pages of one table, and one of the identity mapping.
mcTouched == { V(1, 0, 0, 0, 0), V(1, 0, 0, 1, 0), V(0, 0, 1, 1, 0) }

\* RAM may be zeroed, or hold words that look like entries.
mcJunk == { empty, [addr |-> 12, flags |-> {"PRESENT"}] }
=============================================================================
