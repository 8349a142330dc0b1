----------------------------- MODULE MqlogErrno -----------------------------
(***************************************************************************)
(* The return codes of mqlogerrno.h that the modelled operations return.   *)
(* They keep their numeric values: segment_read computes its result as     *)
(* size - sizeof(struct header), so a header whose size is still zero      *)
(* makes it return -12, which a caller cannot tell from ELNORD.            *)
(***************************************************************************)
EXTENDS Integers

ELALLC  == -1    \* allocation error
ELSOFLW == -3    \* string overflow
ELFLEOP == -5    \* file operation error
ELMADV  == -10   \* madvise error: also what a failed mmap leads to
ELNOWCP == -11   \* no write capacity error
ELNORD  == -12   \* nothing to read
ELINVHD == -13   \* invalid frame error
ELLGDIR == -14   \* log directory error
ELLGCLS == -15   \* closing log error
ELDTSYN == -18   \* segment sync error
ELEOS   == -20   \* end of segment
ELLOCK  == -21   \* lock held
ELIDXCR == -23   \* failed to create index
ELIDXOP == -24   \* index operation failed
ELWOFFS == -25   \* failed to find write offset
ELLDSGM == -26   \* failed to load segments
ELLCKOP == -28   \* failed on lock operation
ELIDXPC == -29   \* index operation panic
ELIDXLK == -30   \* index is locked
ELIDXNM == -31   \* key inserted violates monotonicity
=============================================================================
