---------------------------- MODULE MCAlertJournal ----------------------------
\* AlertJournal and JournalWindow for one region, which may be selected in some
\* runs and not in others.
EXTENDS AlertJournalProofs
CONSTANT r1
=============================================================================
