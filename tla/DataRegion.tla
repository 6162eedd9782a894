----------------------------- MODULE DataRegion -----------------------------
(***************************************************************************)
(* rt::data_region (include/hipSYCL/runtime/data.hpp): which pages of a    *)
(* buffer are outdated on which device.  The region has one dimension.     *)
(* "allocs" is the list of the devices that have an allocation, "invalid"  *)
(* gives the invalid_pages of each of them.                                *)
(***************************************************************************)
EXTENDS Integers, Sequences, FiniteSets, SequencesExt

CONSTANTS NumElements, PageSize

ASSUME RegionAssumption ==
    /\ NumElements \in Nat \ {0}
    /\ PageSize \in Nat \ {0}

Elements == 0..(NumElements - 1)
NumPages == (NumElements + PageSize - 1) \div PageSize
Pages == 0..(NumPages - 1)

\* get_page_range(): the pages that a range of elements touches.
PageRange(elements) == {e \div PageSize : e \in elements}

\* The elements of a set of pages; the last page may be cut short.
ElementsOf(pages) == {e \in Elements : e \div PageSize \in pages}

\* get_outdated_regions(): the maximal runs of invalid pages in the range, in
\* ascending order.
OutdatedRegions(invalidPages, elements) ==
    LET outdated == invalidPages \cap PageRange(elements)
        first == {p \in outdated : p - 1 \notin outdated}
        run(p) == {q \in outdated : p <= q /\ p..q \subseteq outdated}
        starts == SetToSortSeq(first, <)
    IN [i \in DOMAIN starts |-> run(starts[i])]

\* get_update_source_candidates(): the other devices on which the whole run is
\* valid, in the order of their allocation.
UpdateSources(allocs, invalid, dev, run) ==
    SelectSeq(allocs, LAMBDA s : s # dev /\ invalid[s] \cap run = {})

\* has_initialized_content(): some allocation has a valid page in the range.
HasInitializedContent(allocs, invalid, elements) ==
    \E i \in DOMAIN allocs : ~ (PageRange(elements) \subseteq invalid[allocs[i]])

MarkRangeValid(allocs, invalid, dev, elements) ==
    [invalid EXCEPT ![dev] = @ \ PageRange(elements)]

\* Bug: the other allocations stay valid.
MarkOwnRangeCurrent(allocs, invalid, dev, elements) ==
    [invalid EXCEPT ![dev] = @ \ PageRange(elements)]

MarkRangeCurrent(allocs, invalid, dev, elements) ==
    [s \in DOMAIN invalid |->
        IF s = dev THEN invalid[s] \ PageRange(elements)
        ELSE IF \E i \in DOMAIN allocs : allocs[i] = s
             THEN invalid[s] \cup PageRange(elements)
             ELSE invalid[s]]
=============================================================================
