\* Terminals around the smallest one that shows a graph.
SPECIFICATION Spec
CONSTANTS
    Half = 4
    MIN_W = 8
    MIN_H = 3
    GUTTER = 8
    Widths = {10, 35, 36, 39}
    Heights = {1, 7, 8, 9}
    Times = {0, 1, 3}
    Scenes <- MCScenes
INVARIANTS
    GraphInside
    LabelsClearOfPlot
