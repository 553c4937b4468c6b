----------------------------- MODULE MCPlotSync ------------------------------
EXTENDS PlotSync

MCPlots == 1..2
==============================================================================
