-------------------------- MODULE MCWindowReadings --------------------------
EXTENDS WindowReadings

\* The window of a model, and the second account-wide one, come and go.
SmallOffers == {{"session", "weekly_model"}, {"session", "weekly_all"}}

=============================================================================
