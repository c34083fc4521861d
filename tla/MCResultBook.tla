---------------------------- MODULE MCResultBook ----------------------------
\* ResultBook on the tournament of MCInstances.
EXTENDS ResultBook, MCInstances

ASSUME CallersAssumption == CallsLeaveFedSlots /\ CountriesEnterOnce
=============================================================================
