--------------------------- MODULE MCLossEpisodes ---------------------------
EXTENDS LossEpisodes
=============================================================================
