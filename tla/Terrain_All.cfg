SPECIFICATION Spec
CONSTANTS
    Grids = {1, 2, 3}
    Squares <- MCSquares
    Corner = 1
    CACHE_SIZE = 2
    HomeGrid = 1
    Around <- MCAround
    None = 0
    grid_idx_x <- MCRow
    grid_idx_y <- MCColumn
    east_blocks = 2
INVARIANTS
    TypeOK
    HeightsBelong
    ValidIsSaved
PROPERTIES
    DiskKeepsHeights
    HeightsArrive
